---- MODULE Spec2Model ----
(***************************************************************************)
(* Mine dispatch dashboard.  The model covers the three stateful views     *)
(* (App, MaintenanceScheduler, RouteOptimizer), the pure aggregates of the *)
(* dispatch and analytics views, and the backend client they talk to.      *)
(*                                                                         *)
(* Every async handler is a task: a stack of frames, one per function that *)
(* is waiting on an await.  A request is issued by the handler, processed  *)
(* by the backend in a step of its own (BackendProcess), and its response  *)
(* is delivered in a later step (Deliver), which runs the handler up to    *)
(* its next await.  Handlers read the props and state of the render that   *)
(* created them (captured in the task), and write the current state.       *)
(***************************************************************************)
EXTENDS Integers, Sequences, FiniteSets, TLC

VARIABLES
    db,      \* the backend collections, each a sequence of records in insertion order
    app,     \* state of App
    maint,   \* state of MaintenanceScheduler (the mounted instance)
    route,   \* state of RouteOptimizer (the mounted instance)
    tasks,   \* the async handlers in flight
    now,     \* the clock read by Date.now() and new Date()
    out,     \* what the last step showed, logged and sent
    auth,    \* the user signed in at the backend client
    timers,  \* the intervals set and not cleared
    budget,  \* events of the environment left: clicks, auth changes, clock ticks, failed calls
    dialog   \* state of AssignmentDialog, and the calls of onCreateAssignment by its last handler

vars == <<db, app, maint, route, tasks, now, out, auth, timers, budget, dialog>>

----------------------------------------------------------------------------
(* Bounds of the model *)

MaxTime == 2
MaxOps == 2
MaxInFlight == 2
MaxPoints == 3
RandSteps == 30

----------------------------------------------------------------------------
(* Values *)

NoUser == "none"
Users == {"u1", "u2"}

Min(S) == CHOOSE x \in S : \A y \in S : x <= y

\* { ...a, ...b }
Spread(a, b) ==
    [k \in DOMAIN a \cup DOMAIN b |-> IF k \in DOMAIN b THEN b[k] ELSE a[k]]

Has(r, k) == k \in DOMAIN r

\* r.k || 0
OrZero(r, k) == IF Has(r, k) THEN r[k] ELSE 0

Map(s, F(_)) == [i \in DOMAIN s |-> F(s[i])]

\* Array.prototype.find: <<>> is undefined
Find(s, Test(_)) ==
    LET hits == {i \in DOMAIN s : Test(s[i])}
    IN  IF hits = {} THEN <<>> ELSE <<s[Min(hits)]>>

RECURSIVE SumSeq(_)
SumSeq(s) == IF s = <<>> THEN 0 ELSE s[1] + SumSeq(Tail(s))


\* Math.random() returns k / RandSteps
RandomValues == 0 .. (RandSteps - 1)

\* Math.round(n / d) for d > 0: floor(n/d + 1/2)
RoundDiv(n, d) == (2 * n + d) \div (2 * d)

----------------------------------------------------------------------------
(* Sample data written by initializeSampleData *)

PastDate == 0

sampleEquipment == <<
    [id |-> "exc-001", name |-> "CAT 390F", type |-> "excavator", status |-> "active", efficiency |-> 85],
    [id |-> "exc-002", name |-> "Komatsu PC800", type |-> "excavator", status |-> "idle", efficiency |-> 92],
    [id |-> "exc-003", name |-> "Hitachi EX1200", type |-> "excavator", status |-> "maintenance", efficiency |-> 0,
     lastMaintenance |-> PastDate],
    [id |-> "dum-001", name |-> "CAT 777G", type |-> "dumper", status |-> "active", efficiency |-> 88],
    [id |-> "dum-002", name |-> "Komatsu HD785", type |-> "dumper", status |-> "active", efficiency |-> 95],
    [id |-> "dum-003", name |-> "CAT 775G", type |-> "dumper", status |-> "idle", efficiency |-> 90],
    [id |-> "dum-004", name |-> "Volvo A60H", type |-> "dumper", status |-> "maintenance", efficiency |-> 0],
    [id |-> "cru-001", name |-> "Primary Crusher", type |-> "crusher", status |-> "active", efficiency |-> 82],
    [id |-> "cru-002", name |-> "Secondary Crusher", type |-> "crusher", status |-> "active", efficiency |-> 80],
    [id |-> "cru-003", name |-> "Tertiary Crusher", type |-> "crusher", status |-> "idle", efficiency |-> 0],
    [id |-> "yard-001", name |-> "Waste Dump A", type |-> "dumpyard", status |-> "active", efficiency |-> 64],
    [id |-> "yard-002", name |-> "Ore Stockpile", type |-> "dumpyard", status |-> "active", efficiency |-> 74],
    [id |-> "yard-003", name |-> "Waste Dump B", type |-> "dumpyard", status |-> "idle", efficiency |-> 12] >>

----------------------------------------------------------------------------
(* The backend client: blink.db.<collection>.list/create/createMany/update *)
(* and blink.auth.me.  Records are keyed by id.                            *)

Collections ==
    {"equipment", "assignments", "maintenanceTasks", "optimizedRoutes", "routePoints", "equipmentLogs"}

EmptyDb == [c \in Collections |-> <<>>]

\* the strings some list call orders by, in ascending order
Alphabetical == <<
    "Bench 1 Loading", "Bench 2 Loading", "Ore Stockpile", "Primary Crusher", "Waste Dump A", "Waste Dump B",
    "crusher", "dumper", "dumpyard", "excavator" >>

SortKey(rec, ob) ==
    IF ob.kind = "num" THEN OrZero(rec, ob.key)
    ELSE Min({i \in DOMAIN Alphabetical : Alphabetical[i] = rec[ob.key]})

\* rec with its key and its place in the collection
Keyed(s, ob) == [i \in DOMAIN s |-> [key |-> SortKey(s[i], ob), at |-> i, rec |-> s[i]]]

ComesBefore(a, b, dir) ==
    IF a.key = b.key THEN a.at < b.at
    ELSE IF dir = "asc" THEN a.key < b.key ELSE a.key > b.key

\* a stable sort by the key of orderBy
SortBy(s, ob) ==
    Map(SortSeq(Keyed(s, ob), LAMBDA a, b : ComesBefore(a, b, ob.dir)), LAMBDA keyed : keyed.rec)

Matches(rec, where) == \A k \in DOMAIN where : Has(rec, k) /\ rec[k] = where[k]

Ids(s) == {s[i].id : i \in DOMAIN s}

DbList(d, req) ==
    SortBy(SelectSeq(d[req.coll], LAMBDA rec : Matches(rec, req.where)), req.orderBy)

\* the stored record: the backend stamps createdAt when the caller gave none
DbStamp(rec, t) == IF Has(rec, "createdAt") THEN rec ELSE Spread(rec, [createdAt |-> t])

Failed == [ok |-> FALSE, data |-> <<>>]

\* the answer to request req and the collections after it
Exec(d, req, authUser, t) ==
    CASE req.op = "me" ->
            IF authUser = NoUser THEN [resp |-> Failed, db |-> d]
            ELSE [resp |-> [ok |-> TRUE, data |-> [id |-> authUser]], db |-> d]
      [] req.op = "list" ->
            [resp |-> [ok |-> TRUE, data |-> DbList(d, req)], db |-> d]
      [] req.op = "create" ->
            IF req.rec.id \in Ids(d[req.coll]) THEN [resp |-> Failed, db |-> d]
            ELSE [resp |-> [ok |-> TRUE, data |-> req.rec],
                  db |-> [d EXCEPT ![req.coll] = Append(@, DbStamp(req.rec, t))]]
      [] req.op = "createMany" ->
            IF Ids(req.recs) \cap Ids(d[req.coll]) # {} THEN [resp |-> Failed, db |-> d]
            ELSE [resp |-> [ok |-> TRUE, data |-> req.recs],
                  db |-> [d EXCEPT ![req.coll] = @ \o Map(req.recs, LAMBDA rec : DbStamp(rec, t))]]
      [] req.op = "update" ->
            IF req.id \notin Ids(d[req.coll]) THEN [resp |-> Failed, db |-> d]
            ELSE [resp |-> [ok |-> TRUE, data |-> req.patch],
                  db |-> [d EXCEPT ![req.coll] =
                             Map(@, LAMBDA rec : IF rec.id = req.id THEN Spread(rec, req.patch) ELSE rec)]]
      [] req.op = "delete" ->
            IF req.id \notin Ids(d[req.coll]) THEN [resp |-> Failed, db |-> d]
            ELSE [resp |-> [ok |-> TRUE, data |-> <<>>],
                  db |-> [d EXCEPT ![req.coll] = SelectSeq(@, LAMBDA rec : rec.id # req.id)]]

----------------------------------------------------------------------------
(* Tasks: async handlers in flight *)

NoReq == [op |-> "none"]
NoResp == [state |-> "none"]
Pending == [state |-> "pending"]
Enter == [state |-> "enter"]
Returned == [state |-> "done", ok |-> TRUE, data |-> <<>>]

NoOut == [toasts |-> <<>>, logs |-> <<>>, reqs |-> <<>>, rejectedIn |-> "none", caught |-> <<>>]

Frame(fn, a) == [fn |-> fn, pc |-> "start", a |-> a, req |-> NoReq, resp |-> NoResp]

\* what a handler does next
Await(S, f, pc, req, c) ==
    [k |-> "await",
     S |-> [S EXCEPT !.out.reqs = Append(@, Spread(req, [by |-> f.fn, origin |-> c.origin]))],
     f |-> [f EXCEPT !.pc = pc, !.req = req, !.resp = Pending]]
Call(S, f, pc, callee) == [k |-> "call", S |-> S, f |-> [f EXCEPT !.pc = pc, !.req = NoReq, !.resp = NoResp], callee |-> callee]
Return(S) == [k |-> "return", S |-> S]

\* toast.error / toast.success, console.error, and entering a catch block
Toast(S, kind, msg) == [S EXCEPT !.out.toasts = Append(@, [kind |-> kind, msg |-> msg])]
ConsoleError(S, msg) == [S EXCEPT !.out.logs = Append(@, msg)]
Catch(S, fn, msg) == ConsoleError([S EXCEPT !.out.caught = Append(@, fn)], msg)

\* a state setter of App, of the MaintenanceScheduler instance c.gen and of the
\* RouteOptimizer instance c.gen: setting state of an unmounted instance does nothing
SetApp(S, field, val) ==
    IF S.app.mounted THEN [S EXCEPT !.app[field] = val] ELSE S
\* App renders its views when it is mounted, not loading and a user is signed in
Visible(a) == a.mounted /\ ~a.loading /\ a.user # NoUser
Shows(a, view) == Visible(a) /\ a.activeView = view
MaintMounted(S, c) == Shows(S.app, "maintenance") /\ S.maint.gen = c.gen
SetMaint(S, c, field, val) ==
    IF MaintMounted(S, c) THEN [S EXCEPT !.maint[field] = val] ELSE S
RouteMounted(S, c) == Shows(S.app, "routes") /\ S.route.gen = c.gen
SetRoute(S, c, field, val) ==
    IF RouteMounted(S, c) THEN [S EXCEPT !.route[field] = val] ELSE S

RECURSIVE Drive(_, _, _, _)
RECURSIVE Continue(_, _, _)

\* the handler that ran to d goes on alone, unless it has ended
Spawned(d, c) ==
    IF d.stack = <<>> THEN d.S
    ELSE [d.S EXCEPT !.spawn = Append(@, [stack |-> d.stack, u |-> c.u, origin |-> c.origin, gen |-> c.gen])]

\* a call that is not awaited: the callee runs to its first await and goes on alone
StartTask(S, fn, a, c) == Spawned(Drive(S, <<Frame(fn, a)>>, Enter, c), c)

----------------------------------------------------------------------------
(* App: equipment and assignments *)

ItemFields(item, fields) == [k \in fields \cap DOMAIN item |-> item[k]]

EquipmentOfItem(item) ==
    ItemFields(item, {"id", "name", "type", "status", "location", "operator", "capacity", "currentLoad",
                      "efficiency", "lastMaintenance"})

AssignmentOfItem(item) ==
    ItemFields(item, {"id", "excavatorId", "dumperId", "crusherId", "dumpyardId", "priority",
                      "estimatedTime", "progress", "status"})

loadEquipmentCatch(S) ==
    Toast(Catch(S, "loadEquipment", "Failed to load equipment:"), "error", "Failed to load equipment data")

loadEquipment(S, f, r, c) ==
    CASE f.pc = "start" ->
            Await(S, f, "list",
                  [coll |-> "equipment", op |-> "list", where |-> [userId |-> c.u],
                   orderBy |-> [key |-> "type", dir |-> "asc", kind |-> "str"]], c)
      [] f.pc = "list" ->
            IF ~r.ok THEN Return(loadEquipmentCatch(S))
            ELSE IF Len(r.data) = 0 THEN Call(S, f, "initialized", Frame("initializeSampleData", <<>>))
            ELSE Return(SetApp(S, "equipment", Map(r.data, EquipmentOfItem)))
      [] f.pc = "initialized" -> Return(S)

loadAssignmentsCatch(S) == Catch(S, "loadAssignments", "Failed to load assignments:")

loadAssignmentsSeeding(S, f, r, c) ==
    CASE f.pc = "start" ->
            Await(S, f, "list",
                  [coll |-> "assignments", op |-> "list", where |-> [userId |-> c.u, status |-> "active"],
                   orderBy |-> [key |-> "createdAt", dir |-> "desc", kind |-> "num"]], c)
      [] f.pc = "list" ->
            IF ~r.ok THEN Return(loadAssignmentsCatch(S))
            ELSE Await(SetApp(S, "assignments", Map(r.data, AssignmentOfItem)), f, "seeded",
                       [coll |-> "assignments", op |-> "create",
                        rec |-> [id |-> "assign-sample", status |-> "active", progress |-> 0, userId |-> c.u]], c)
      [] f.pc = "seeded" -> Return(S)

\* a load that lists the assignments of every status
loadAssignmentsUnfiltered(S, f, r, c) ==
    CASE f.pc = "start" ->
            Await(S, f, "list",
                  [coll |-> "assignments", op |-> "list", where |-> [userId |-> c.u],
                   orderBy |-> [key |-> "createdAt", dir |-> "desc", kind |-> "num"]], c)
      [] f.pc = "list" ->
            IF ~r.ok THEN Return(loadAssignmentsCatch(S))
            ELSE Return(SetApp(S, "assignments", Map(r.data, AssignmentOfItem)))

loadAssignments(S, f, r, c) ==
    CASE f.pc = "start" ->
            Await(S, f, "list",
                  [coll |-> "assignments", op |-> "list", where |-> [userId |-> c.u, status |-> "active"],
                   orderBy |-> [key |-> "createdAt", dir |-> "desc", kind |-> "num"]], c)
      [] f.pc = "list" ->
            IF ~r.ok THEN Return(loadAssignmentsCatch(S))
            ELSE Return(SetApp(S, "assignments", Map(r.data, AssignmentOfItem)))

initializeSampleDataCatch(S) == Catch(S, "initializeSampleData", "Failed to initialize sample data:")

\* a seeding that lists again though createMany was rejected
initializeSampleDataRetrying(S, f, r, c) ==
    CASE f.pc = "start" ->
            Await(S, f, "createMany",
                  [coll |-> "equipment", op |-> "createMany",
                   recs |-> Map(sampleEquipment, LAMBDA item : Spread(item, [userId |-> c.u]))], c)
      [] f.pc = "createMany" -> Call(S, f, "loaded", Frame("loadEquipment", <<>>))
      [] f.pc = "loaded" -> Return(Toast(S, "success", "Sample equipment data initialized"))

initializeSampleData(S, f, r, c) ==
    CASE f.pc = "start" ->
            Await(S, f, "createMany",
                  [coll |-> "equipment", op |-> "createMany",
                   recs |-> Map(sampleEquipment, LAMBDA item : Spread(item, [userId |-> c.u]))], c)
      [] f.pc = "createMany" ->
            IF ~r.ok THEN Return(initializeSampleDataCatch(S))
            ELSE Call(S, f, "loaded", Frame("loadEquipment", <<>>))
      [] f.pc = "loaded" -> Return(Toast(S, "success", "Sample equipment data initialized"))

\* a catch block that reloads the list before it shows the toast
updateEquipmentStatusCatchReloading(S) ==
    Toast(Catch(StartTask(S, "loadEquipment", <<>>, [u |-> S.app.user, origin |-> "status", gen |-> 0, now |-> 0]),
                "updateEquipmentStatus", "Failed to update equipment status:"),
          "error", "Failed to update equipment status")

updateEquipmentStatusCatch(S) ==
    Toast(Catch(S, "updateEquipmentStatus", "Failed to update equipment status:"),
          "error", "Failed to update equipment status")

\* f.a = [equipmentId, newStatus]
updateEquipmentStatus(S, f, r, c) ==
    CASE f.pc = "start" ->
            Await(S, f, "update",
                  [coll |-> "equipment", op |-> "update", id |-> f.a.equipmentId,
                   patch |-> [status |-> f.a.newStatus, updatedAt |-> c.now]], c)
      [] f.pc = "update" ->
            IF ~r.ok THEN Return(updateEquipmentStatusCatch(S))
            ELSE Await(S, f, "log",
                       [coll |-> "equipmentLogs", op |-> "create",
                        rec |-> [id |-> "log-" \o ToString(c.now), equipmentId |-> f.a.equipmentId,
                                 newStatus |-> f.a.newStatus, userId |-> c.u]], c)
      [] f.pc = "log" ->
            IF ~r.ok THEN Return(updateEquipmentStatusCatch(S))
            ELSE Call(S, f, "loaded", Frame("loadEquipment", <<>>))
      [] f.pc = "loaded" -> Return(Toast(S, "success", "Equipment status updated to " \o f.a.newStatus))

newAssignmentWrongOrder(assignmentData, u, t) ==
    Spread([id |-> "assign-" \o ToString(t), status |-> "pending", progress |-> 0, userId |-> u], assignmentData)

\* { id, ...assignmentData, status: 'pending', progress: 0, userId }
newAssignment(assignmentData, u, t) ==
    Spread(Spread([id |-> "assign-" \o ToString(t)], assignmentData),
           [status |-> "pending", progress |-> 0, userId |-> u])

\* a catch block that also closes the dialog
createAssignmentCatchClosing(S) ==
    SetApp(Toast(Catch(S, "createAssignment", "Failed to create assignment:"), "error", "Failed to create assignment"),
           "isCreateAssignmentOpen", FALSE)

createAssignmentCatch(S) ==
    Toast(Catch(S, "createAssignment", "Failed to create assignment:"), "error", "Failed to create assignment")

\* f.a = [assignmentData]
createAssignment(S, f, r, c) ==
    CASE f.pc = "start" ->
            LET new == newAssignment(f.a.assignmentData, c.u, c.now)
            IN  Await(S, f, "create",
                      [coll |-> "assignments", op |-> "create",
                       rec |-> Spread(new, ItemFields(new, {"excavatorId", "dumperId", "crusherId", "dumpyardId",
                                                            "estimatedTime", "priority"}))], c)
      [] f.pc = "create" ->
            IF ~r.ok THEN Return(createAssignmentCatch(S))
            ELSE Call(S, f, "loaded", Frame("loadAssignments", <<>>))
      [] f.pc = "loaded" ->
            Return(Toast(SetApp(S, "isCreateAssignmentOpen", FALSE), "success", "Assignment created successfully"))

----------------------------------------------------------------------------
(* MaintenanceScheduler *)

TaskOfItem(item) ==
    ItemFields(item, {"id", "equipmentId", "equipmentName", "type", "priority", "scheduledDate",
                      "estimatedDuration", "description", "status", "assignedTechnician", "completedDate",
                      "notes"})

loadMaintenanceTasksCatch(S) ==
    Toast(Catch(S, "loadMaintenanceTasks", "Failed to load maintenance tasks:"),
          "error", "Failed to load maintenance tasks")

loadMaintenanceTasks(S, f, r, c) ==
    CASE f.pc = "start" ->
            Await(SetMaint(S, c, "loading", TRUE), f, "me", [coll |-> "auth", op |-> "me"], c)
      [] f.pc = "me" ->
            IF ~r.ok THEN Return(SetMaint(loadMaintenanceTasksCatch(S), c, "loading", FALSE))
            ELSE Await(S, f, "list",
                       [coll |-> "maintenanceTasks", op |-> "list", where |-> [userId |-> r.data.id],
                        orderBy |-> [key |-> "scheduledDate", dir |-> "asc", kind |-> "num"]], c)
      [] f.pc = "list" ->
            IF ~r.ok THEN Return(SetMaint(loadMaintenanceTasksCatch(S), c, "loading", FALSE))
            ELSE Return(SetMaint(SetMaint(S, c, "maintenanceTasks", Map(r.data, TaskOfItem)), c, "loading", FALSE))

createMaintenanceTaskCatch(S) ==
    Toast(Catch(S, "createMaintenanceTask", "Failed to create maintenance task:"),
          "error", "Failed to schedule maintenance task")

\* f.a = [taskData]
createMaintenanceTask(S, f, r, c) ==
    CASE f.pc = "start" -> Await(S, f, "me", [coll |-> "auth", op |-> "me"], c)
      [] f.pc = "me" ->
            IF ~r.ok THEN Return(createMaintenanceTaskCatch(S))
            ELSE LET newTask == Spread(Spread([id |-> "maint-" \o ToString(c.now)], f.a.taskData),
                                       [userId |-> r.data.id, createdAt |-> c.now])
                 IN  Await(S, f, "create",
                           [coll |-> "maintenanceTasks", op |-> "create",
                            rec |-> Spread(newTask, ItemFields(newTask,
                                        {"equipmentId", "equipmentName", "scheduledDate", "estimatedDuration",
                                         "assignedTechnician"}))], c)
      [] f.pc = "create" ->
            IF ~r.ok THEN Return(createMaintenanceTaskCatch(S))
            ELSE Call(S, f, "loaded", Frame("loadMaintenanceTasks", <<>>))
      [] f.pc = "loaded" ->
            Return(Toast(SetMaint(S, c, "isCreateTaskOpen", FALSE), "success",
                         "Maintenance task scheduled successfully"))

updateTaskStatusCatch(S) ==
    Toast(Catch(S, "updateTaskStatus", "Failed to update task status:"), "error", "Failed to update task status")

\* an updateData that never carries completedDate
updateDataWithoutDate(status, notes, t) ==
    Spread([status |-> status, updatedAt |-> t], IF notes # "" THEN [notes |-> notes] ELSE <<>>)

\* the updateData of updateTaskStatus
updateData(status, notes, t) ==
    Spread(Spread([status |-> status, updatedAt |-> t],
                  IF status = "completed" THEN [completedDate |-> t] ELSE <<>>),
           IF notes # "" THEN [notes |-> notes] ELSE <<>>)

\* f.a = [taskId, status, notes, maintenanceTasks]: the list is the one of the render the click came from
updateTaskStatus(S, f, r, c) ==
    CASE f.pc = "start" ->
            Await(S, f, "update",
                  [coll |-> "maintenanceTasks", op |-> "update", id |-> f.a.taskId,
                   patch |-> updateData(f.a.status, f.a.notes, c.now)], c)
      [] f.pc = "update" ->
            IF ~r.ok THEN Return(updateTaskStatusCatch(S))
            ELSE Call(S, f, "loaded", Frame("loadMaintenanceTasks", <<>>))
      [] f.pc = "loaded" ->
            LET task == Find(f.a.maintenanceTasks, LAMBDA t : t.id = f.a.taskId)
            IN  IF f.a.status = "completed" /\ task # <<>>
                THEN Await(S, f, "equipment",
                           [coll |-> "equipment", op |-> "update", id |-> task[1].equipmentId,
                            patch |-> [status |-> "idle", lastMaintenance |-> c.now, updatedAt |-> c.now]], c)
                ELSE Return(Toast(S, "success", "Task marked as " \o f.a.status))
      [] f.pc = "equipment" ->
            IF ~r.ok THEN Return(updateTaskStatusCatch(S))
            ELSE Return(Toast(StartTask(S, "loadEquipment", <<>>, c), "success", "Task marked as " \o f.a.status))

----------------------------------------------------------------------------
(* RouteOptimizer *)

samplePoints == <<
    [id |-> "point-1", name |-> "Bench 1 Loading", type |-> "loading", coordinates |-> [x |-> 100, y |-> 80],
     capacity |-> 1000, currentLoad |-> 650, waitTime |-> 5],
    [id |-> "point-2", name |-> "Bench 2 Loading", type |-> "loading", coordinates |-> [x |-> 200, y |-> 80],
     capacity |-> 1200, currentLoad |-> 800, waitTime |-> 3],
    [id |-> "point-3", name |-> "Primary Crusher", type |-> "processing", coordinates |-> [x |-> 300, y |-> 200],
     capacity |-> 2000, currentLoad |-> 1500, waitTime |-> 8],
    [id |-> "point-4", name |-> "Waste Dump A", type |-> "dumping", coordinates |-> [x |-> 450, y |-> 100],
     capacity |-> 50000, currentLoad |-> 32000, waitTime |-> 2],
    [id |-> "point-5", name |-> "Ore Stockpile", type |-> "dumping", coordinates |-> [x |-> 350, y |-> 300],
     capacity |-> 25000, currentLoad |-> 18500, waitTime |-> 4],
    [id |-> "point-6", name |-> "Waste Dump B", type |-> "dumping", coordinates |-> [x |-> 500, y |-> 250],
     capacity |-> 40000, currentLoad |-> 5000, waitTime |-> 2] >>

\* JSON.stringify and JSON.parse
Stringify(v) == [json |-> v]
Parse(text) == text.json

RouteOfItem(item) ==
    Spread(ItemFields(item, {"id", "equipmentId", "equipmentName", "totalDistance", "estimatedTime",
                             "fuelConsumption", "efficiency", "status", "priority"}),
           [points |-> IF Has(item, "points") THEN Parse(item.points) ELSE <<>>])

PointOfItem(item) ==
    Spread(ItemFields(item, {"id", "name", "type", "capacity", "currentLoad", "waitTime"}),
           [coordinates |-> Parse(item.coordinates)])

Me == [coll |-> "auth", op |-> "me"]

loadRoutesCatch(S) == Catch(S, "loadRoutes", "Failed to load routes:")

loadRoutes(S, f, r, c) ==
    CASE f.pc = "start" -> Await(S, f, "me", Me, c)
      [] f.pc = "me" ->
            IF ~r.ok THEN Return(loadRoutesCatch(S))
            ELSE Await(S, f, "list",
                       [coll |-> "optimizedRoutes", op |-> "list", where |-> [userId |-> r.data.id],
                        orderBy |-> [key |-> "createdAt", dir |-> "desc", kind |-> "num"]], c)
      [] f.pc = "list" ->
            IF ~r.ok THEN Return(loadRoutesCatch(S))
            ELSE Return(SetRoute(S, c, "routes", Map(r.data, RouteOfItem)))

loadRoutePointsCatch(S) == Catch(S, "loadRoutePoints", "Failed to load route points:")

loadRoutePoints(S, f, r, c) ==
    CASE f.pc = "start" -> Await(S, f, "me", Me, c)
      [] f.pc = "me" ->
            IF ~r.ok THEN Return(loadRoutePointsCatch(S))
            ELSE Await(S, f, "list",
                       [coll |-> "routePoints", op |-> "list", where |-> [userId |-> r.data.id],
                        orderBy |-> [key |-> "name", dir |-> "asc", kind |-> "str"]], c)
      [] f.pc = "list" ->
            IF ~r.ok THEN Return(loadRoutePointsCatch(S))
            ELSE IF Len(r.data) = 0 THEN Call(S, f, "initialized", Frame("initializeSampleRoutePoints", <<>>))
            ELSE Return(SetRoute(S, c, "routePoints", Map(r.data, PointOfItem)))
      [] f.pc = "initialized" -> Return(S)

initializeSampleRoutePointsCatch(S) ==
    Catch(S, "initializeSampleRoutePoints", "Failed to initialize route points:")

initializeSampleRoutePoints(S, f, r, c) ==
    CASE f.pc = "start" -> Await(S, f, "me", Me, c)
      [] f.pc = "me" ->
            IF ~r.ok THEN Return(initializeSampleRoutePointsCatch(S))
            ELSE Await(S, f, "createMany",
                       [coll |-> "routePoints", op |-> "createMany",
                        recs |-> Map(samplePoints, LAMBDA point :
                                     Spread(point, [coordinates |-> Stringify(point.coordinates),
                                                    userId |-> r.data.id]))], c)
      [] f.pc = "createMany" ->
            IF ~r.ok THEN Return(initializeSampleRoutePointsCatch(S))
            ELSE Return(Toast(SetRoute(S, c, "routePoints", samplePoints), "success",
                              "Sample route points initialized"))

\* (p.capacity || 0) - (p.currentLoad || 0)
FreeCapacity(p) == OrZero(p, "capacity") - OrZero(p, "currentLoad")

RECURSIVE ReduceBestKeepsLast(_, _, _)
ReduceBestKeepsLast(points, i, best) ==
    IF i > Len(points) THEN best
    ELSE ReduceBestKeepsLast(points, i + 1,
                             IF FreeCapacity(points[i]) >= FreeCapacity(best) THEN points[i] ELSE best)

\* points.reduce((best, current) => free(current) > free(best) ? current : best), from index i on
RECURSIVE ReduceBest(_, _, _)
ReduceBest(points, i, best) ==
    IF i > Len(points) THEN best
    ELSE ReduceBest(points, i + 1, IF FreeCapacity(points[i]) > FreeCapacity(best) THEN points[i] ELSE best)

\* the largest n with n = 0 or (10 n - 5)^2 <= q, from n on
RECURSIVE RoundSqrtTenth(_, _)
RoundSqrtTenth(q, n) == IF (10 * (n + 1) - 5) * (10 * (n + 1) - 5) <= q THEN RoundSqrtTenth(q, n + 1) ELSE n

\* Math.round(Math.sqrt(dx * dx + dy * dy) / 10)
calculateDistance(point1, point2) ==
    LET dx == point2.x - point1.x
        dy == point2.y - point1.y
    IN  RoundSqrtTenth(dx * dx + dy * dy, 0)

routeEfficiencyFrom80(k) == RoundDiv(80 * RandSteps + 15 * k, RandSteps)

\* Math.round(85 + Math.random() * 15) with Math.random() = k / RandSteps
routeEfficiency(k) == RoundDiv(85 * RandSteps + 15 * k, RandSteps)

\* Math.round(distance / 25 + wait1 + wait2), Math.round(distance * 0.3)
routeTime(distance, p1, p2) == RoundDiv(distance + 25 * (OrZero(p1, "waitTime") + OrZero(p2, "waitTime")), 25)
routeFuel(distance) == RoundDiv(3 * distance, 10)

bestPointKeepsLast(points) == ReduceBestKeepsLast(points, 2, points[1])

\* points.reduce(...) without an initial value: it starts from the first point
bestPoint(points) == ReduceBest(points, 2, points[1])

\* a route whose id does not carry the time of its run
optimizedRouteSharedId(dumper, bestLoadingPoint, bestDumpingPoint, distance, k, t) ==
    [id |-> "route-" \o dumper.id,
     equipmentId |-> dumper.id,
     equipmentName |-> dumper.name,
     points |-> <<bestLoadingPoint, bestDumpingPoint>>,
     totalDistance |-> distance,
     estimatedTime |-> routeTime(distance, bestLoadingPoint, bestDumpingPoint),
     fuelConsumption |-> routeFuel(distance),
     efficiency |-> routeEfficiency(k),
     status |-> "planned",
     priority |-> "medium"]

\* the route generateOptimizedRoute returns
optimizedRoute(dumper, bestLoadingPoint, bestDumpingPoint, distance, k, t) ==
    [id |-> "route-" \o ToString(t) \o "-" \o dumper.id,
     equipmentId |-> dumper.id,
     equipmentName |-> dumper.name,
     points |-> <<bestLoadingPoint, bestDumpingPoint>>,
     totalDistance |-> distance,
     estimatedTime |-> routeTime(distance, bestLoadingPoint, bestDumpingPoint),
     fuelConsumption |-> routeFuel(distance),
     efficiency |-> routeEfficiency(k),
     status |-> "planned",
     priority |-> "medium"]

routeBetween(dumper, bestLoadingPoint, bestDumpingPoint, k, t) ==
    optimizedRoute(dumper, bestLoadingPoint, bestDumpingPoint,
                   calculateDistance(bestLoadingPoint.coordinates, bestDumpingPoint.coordinates), k, t)

PointsOfType(routePoints, type) == SelectSeq(routePoints, LAMBDA p : p.type = type)

\* <<>> is null
generateOptimizedRoute(dumper, routePoints, k, t) ==
    IF Len(PointsOfType(routePoints, "loading")) = 0 \/ Len(PointsOfType(routePoints, "dumping")) = 0 THEN <<>>
    ELSE << routeBetween(dumper, bestPoint(PointsOfType(routePoints, "loading")),
                         bestPoint(PointsOfType(routePoints, "dumping")), k, t) >>

optimizeRoutesCatch(S) ==
    Toast(Catch(S, "optimizeRoutes", "Failed to optimize routes:"), "error", "Failed to optimize routes")

NaN == [nan |-> TRUE]
Num(v) == [nan |-> FALSE, v |-> v]

\* the metrics optimizeRoutes sets from the routes of its run
optimizationMetricsOf(optimizedRoutes) ==
    LET totalDistance == SumSeq(Map(optimizedRoutes, LAMBDA x : x.totalDistance))
        totalTime == SumSeq(Map(optimizedRoutes, LAMBDA x : x.estimatedTime))
        total == SumSeq(Map(optimizedRoutes, LAMBDA x : x.efficiency))
        n == Len(optimizedRoutes)
    IN  [totalDistance |-> totalDistance,
         totalTime |-> totalTime,
         fuelSavings |-> RoundDiv(15 * totalDistance, 100),
         efficiencyGain |-> IF n = 0 THEN NaN ELSE Num(RoundDiv(total - 75 * n, n))]

\* the create of the next route of the run, or the reload after the last
optimizeRoutesSave(S, f, c) ==
    IF f.a.i <= Len(f.a.optimizedRoutes)
    THEN Await(S, [f EXCEPT !.a.i = @ + 1], "create",
               [coll |-> "optimizedRoutes", op |-> "create",
                rec |-> Spread(f.a.optimizedRoutes[f.a.i],
                               [points |-> Stringify(f.a.optimizedRoutes[f.a.i].points),
                                userId |-> f.a.userId, createdAt |-> c.now])], c)
    ELSE Call(S, f, "loaded", Frame("loadRoutes", <<>>))

\* every dumper, in maintenance or not
activeDumpersAnyStatus(equipment) == SelectSeq(equipment, LAMBDA eq : eq.type = "dumper")

activeDumpers(equipment) == SelectSeq(equipment, LAMBDA eq : eq.type = "dumper" /\ eq.status # "maintenance")

\* the routes of the dumpers from the j-th on, without the null ones
RECURSIVE generatedRoutes(_, _, _, _, _)
generatedRoutes(dumpers, routePoints, rnd, t, j) ==
    IF j > Len(dumpers) THEN <<>>
    ELSE generateOptimizedRoute(dumpers[j], routePoints, rnd[j], t)
             \o generatedRoutes(dumpers, routePoints, rnd, t, j + 1)

\* f.a = [equipment, routePoints, rnd]: the props and state of the render the click came from,
\* and the values Math.random() returns, one for each dumper
optimizeRoutes(S, f, r, c) ==
    CASE f.pc = "start" ->
            IF Len(activeDumpers(f.a.equipment)) = 0
            THEN Return(SetRoute(Toast(SetRoute(S, c, "isOptimizing", TRUE),
                                       "error", "No available dumpers for route optimization"),
                                 c, "isOptimizing", FALSE))
            ELSE Await(SetRoute(S, c, "isOptimizing", TRUE),
                       [f EXCEPT !.a = Spread(@, [optimizedRoutes |->
                                                      generatedRoutes(activeDumpers(f.a.equipment),
                                                                      f.a.routePoints, f.a.rnd, c.now, 1),
                                                  i |-> 1])],
                       "me", Me, c)
      [] f.pc = "me" ->
            IF ~r.ok THEN Return(SetRoute(optimizeRoutesCatch(S), c, "isOptimizing", FALSE))
            ELSE optimizeRoutesSave(S, [f EXCEPT !.a = Spread(@, [userId |-> r.data.id])], c)
      [] f.pc = "create" ->
            IF ~r.ok THEN Return(SetRoute(optimizeRoutesCatch(S), c, "isOptimizing", FALSE))
            ELSE optimizeRoutesSave(S, f, c)
      [] f.pc = "loaded" ->
            Return(SetRoute(Toast(SetRoute(S, c, "optimizationMetrics", optimizationMetricsOf(f.a.optimizedRoutes)),
                                  "success", "Optimized routes for vehicles"),
                            c, "isOptimizing", FALSE))

activateRouteCatch(S) ==
    Toast(Catch(S, "activateRoute", "Failed to activate route:"), "error", "Failed to activate route")

\* an update that completes the route
activateRouteRequestCompleted(routeId, t) ==
    [coll |-> "optimizedRoutes", op |-> "update", id |-> routeId, patch |-> [status |-> "completed", updatedAt |-> t]]

activateRouteRequestDelete(routeId, t) == [coll |-> "optimizedRoutes", op |-> "delete", id |-> routeId]

\* blink.db.optimizedRoutes.update(routeId, { status: 'active', updatedAt })
activateRouteRequest(routeId, t) ==
    [coll |-> "optimizedRoutes", op |-> "update", id |-> routeId, patch |-> [status |-> "active", updatedAt |-> t]]

\* f.a = [routeId]
activateRoute(S, f, r, c) ==
    CASE f.pc = "start" -> Await(S, f, "update", activateRouteRequest(f.a.routeId, c.now), c)
      [] f.pc = "update" ->
            IF ~r.ok THEN Return(activateRouteCatch(S))
            ELSE Call(S, f, "loaded", Frame("loadRoutes", <<>>))
      [] f.pc = "loaded" -> Return(Toast(S, "success", "Route activated successfully"))

CreateRouteDialogCatch(S) ==
    Toast(Catch(S, "CreateRouteDialog", "Failed to create route:"), "error", "Failed to create route")

\* Math.pow(b, 2)
Pow2(b) == b * b

\* a time that leaves the wait at the end point out
manualTimeWithoutEndWait(distance, startPoint, endPoint) ==
    RoundDiv(distance + 25 * OrZero(startPoint, "waitTime"), 25)

\* distance, estimatedTime and fuelConsumption of handleSubmit of CreateRouteDialog
manualDistance(startPoint, endPoint) ==
    RoundSqrtTenth(Pow2(endPoint.coordinates.x - startPoint.coordinates.x)
                   + Pow2(endPoint.coordinates.y - startPoint.coordinates.y), 0)

manualTime(distance, startPoint, endPoint) ==
    RoundDiv(distance + 25 * (OrZero(startPoint, "waitTime") + OrZero(endPoint, "waitTime")), 25)

manualFuel(distance) == RoundDiv(3 * distance, 10)

\* the record handleSubmit of CreateRouteDialog creates
manualRoute(formData, selectedEquipment, startPoint, endPoint, distance, k, user, t) ==
    [id |-> "route-" \o ToString(t),
     equipmentId |-> formData.equipmentId,
     equipmentName |-> selectedEquipment.name,
     points |-> Stringify(<<startPoint, endPoint>>),
     totalDistance |-> distance,
     estimatedTime |-> manualTime(distance, startPoint, endPoint),
     fuelConsumption |-> manualFuel(distance),
     efficiency |-> routeEfficiency(k),
     status |-> "planned",
     priority |-> formData.priority,
     userId |-> user.id,
     createdAt |-> t]

FindById(s, id) == Find(s, LAMBDA x : x.id = id)

\* handleSubmit of CreateRouteDialog; f.a = [formData, equipment, routePoints, rnd]
CreateRouteDialog(S, f, r, c) ==
    CASE f.pc = "start" ->
            IF \/ FindById(f.a.equipment, f.a.formData.equipmentId) = <<>>
               \/ FindById(f.a.routePoints, f.a.formData.startPointId) = <<>>
               \/ FindById(f.a.routePoints, f.a.formData.endPointId) = <<>>
            THEN Return(S)
            ELSE Await(S, f, "me", Me, c)
      [] f.pc = "me" ->
            IF ~r.ok THEN Return(CreateRouteDialogCatch(S))
            ELSE Await(S, f, "create",
                       [coll |-> "optimizedRoutes", op |-> "create",
                        rec |-> manualRoute(f.a.formData,
                                            FindById(f.a.equipment, f.a.formData.equipmentId)[1],
                                            FindById(f.a.routePoints, f.a.formData.startPointId)[1],
                                            FindById(f.a.routePoints, f.a.formData.endPointId)[1],
                                            manualDistance(
                                                FindById(f.a.routePoints, f.a.formData.startPointId)[1],
                                                FindById(f.a.routePoints, f.a.formData.endPointId)[1]),
                                            f.a.rnd, r.data, c.now)], c)
      [] f.pc = "create" ->
            IF ~r.ok THEN Return(CreateRouteDialogCatch(S))
            ELSE Return(Toast(StartTask(S, "loadRoutes", <<>>, c), "success", "Manual route created successfully"))

----------------------------------------------------------------------------
(* Running a task *)

Cont(S, f, r, c) ==
    CASE f.fn = "loadEquipment" -> loadEquipment(S, f, r, c)
      [] f.fn = "loadAssignments" -> loadAssignments(S, f, r, c)
      [] f.fn = "initializeSampleData" -> initializeSampleData(S, f, r, c)
      [] f.fn = "updateEquipmentStatus" -> updateEquipmentStatus(S, f, r, c)
      [] f.fn = "createAssignment" -> createAssignment(S, f, r, c)
      [] f.fn = "loadMaintenanceTasks" -> loadMaintenanceTasks(S, f, r, c)
      [] f.fn = "createMaintenanceTask" -> createMaintenanceTask(S, f, r, c)
      [] f.fn = "updateTaskStatus" -> updateTaskStatus(S, f, r, c)
      [] f.fn = "loadRoutes" -> loadRoutes(S, f, r, c)
      [] f.fn = "loadRoutePoints" -> loadRoutePoints(S, f, r, c)
      [] f.fn = "initializeSampleRoutePoints" -> initializeSampleRoutePoints(S, f, r, c)
      [] f.fn = "optimizeRoutes" -> optimizeRoutes(S, f, r, c)
      [] f.fn = "activateRoute" -> activateRoute(S, f, r, c)
      [] f.fn = "CreateRouteDialog" -> CreateRouteDialog(S, f, r, c)

\* the top frame did res: it waits, it calls, or it returns to the frame below
Continue(res, rest, c) ==
    CASE res.k = "await" -> [S |-> res.S, stack |-> Append(rest, res.f)]
      [] res.k = "call" -> Drive(res.S, Append(Append(rest, res.f), res.callee), Enter, c)
      [] res.k = "return" ->
            IF rest = <<>> THEN [S |-> res.S, stack |-> <<>>] ELSE Drive(res.S, rest, Returned, c)

\* run the top frame of stack with answer r until the task awaits or ends
Drive(S, stack, r, c) ==
    Continue(Cont(S, stack[Len(stack)], r, c), SubSeq(stack, 1, Len(stack) - 1), c)

----------------------------------------------------------------------------
(* What the views compute from the state on every render *)

\* n / d in floating point, kept exact; the only division by zero here is 0 / 0
Divide(n, d) == IF d = 0 THEN NaN ELSE [nan |-> FALSE, num |-> n, den |-> d]

Count(s, Test(_)) == Len(SelectSeq(s, Test))

getFleetMetrics(equipment) ==
    LET total == Len(equipment)
    IN  [total |-> total,
         active |-> Count(equipment, LAMBDA eq : eq.status = "active"),
         idle |-> Count(equipment, LAMBDA eq : eq.status = "idle"),
         maintenance |-> Count(equipment, LAMBDA eq : eq.status = "maintenance"),
         avgEfficiency |-> Divide(SumSeq(Map(equipment, LAMBDA eq : OrZero(eq, "efficiency"))), total)]

\* what evaluating an expression gives: a value, undefined (<<>>), or a TypeError
Value(v) == [threw |-> FALSE, v |-> <<v>>]
Undefined == [threw |-> FALSE, v |-> <<>>]
TypeError == [threw |-> TRUE, v |-> <<>>]

\* found.name, without the ?.
PropertyAccess(found, k) ==
    IF found = <<>> THEN TypeError
    ELSE IF Has(found[1], k) THEN Value(found[1][k]) ELSE Undefined

\* found?.name
OptionalChain(found, k) ==
    IF found = <<>> THEN Undefined
    ELSE IF Has(found[1], k) THEN Value(found[1][k]) ELSE Undefined

\* one row of the active-assignments list
assignmentRow(assignment, equipment) ==
    LET excavator == Find(equipment, LAMBDA eq : Has(assignment, "excavatorId") /\ eq.id = assignment.excavatorId)
        dumper == Find(equipment, LAMBDA eq : Has(assignment, "dumperId") /\ eq.id = assignment.dumperId)
        excavatorName == OptionalChain(excavator, "name")
        dumperName == OptionalChain(dumper, "name")
    IN  [threw |-> excavatorName.threw \/ dumperName.threw,
         excavator |-> excavator, dumper |-> dumper,
         excavatorName |-> excavatorName.v, dumperName |-> dumperName.v]

Week == 7

upcomingTasks(maintenanceTasks, t) ==
    SelectSeq(maintenanceTasks, LAMBDA task : task.status = "scheduled" /\ task.scheduledDate <= t + Week)

overdueTasksByStatus(maintenanceTasks, t) ==
    SelectSeq(maintenanceTasks, LAMBDA task : task.status = "overdue")

overdueTasks(maintenanceTasks, t) ==
    SelectSeq(maintenanceTasks, LAMBDA task : task.status = "scheduled" /\ task.scheduledDate < t)

inProgressTasks(maintenanceTasks) ==
    SelectSeq(maintenanceTasks, LAMBDA task : task.status = "in_progress")

----------------------------------------------------------------------------
(* The state after construction, and the effects *)

\* productionMetrics in units of 1 / (2 * RandSteps)
Unit == 2 * RandSteps

app0 ==
    [mounted |-> TRUE, user |-> NoUser, loading |-> TRUE, equipment |-> <<>>, assignments |-> <<>>,
     selectedEquipment |-> <<>>, activeView |-> "dispatch", isCreateAssignmentOpen |-> FALSE,
     productionMetrics |-> [tonsPerHour |-> 2450 * Unit, dailyTotal |-> 18200 * Unit,
                            targetPercentage |-> 76 * Unit, equipmentUtilization |-> 82 * Unit],
     interval |-> 0]

maint0 == [gen |-> 0, maintenanceTasks |-> <<>>, isCreateTaskOpen |-> FALSE, loading |-> FALSE]

route0 ==
    [gen |-> 0, routes |-> <<>>, routePoints |-> <<>>, isOptimizing |-> FALSE, isCreateRouteOpen |-> FALSE,
     optimizationMetrics |-> [totalDistance |-> 0, totalTime |-> 0, fuelSavings |-> 0, efficiencyGain |-> Num(0)]]

\* the state a step starts from
Cur == [db |-> db, app |-> app, maint |-> maint, route |-> route, timers |-> timers, out |-> NoOut, spawn |-> <<>>]

\* the closure a handler runs in: the user of its render, what set it off, the instance it belongs to
Ctx(S, origin, gen) == [u |-> S.app.user, origin |-> origin, gen |-> gen, now |-> now]

\* setInterval gives a handle that is not in use
NewHandle(T) == Min((1 .. (Cardinality(T) + 1)) \ T)

\* setInterval, and the handle kept for the cleanup
setInterval(S) == [S EXCEPT !.timers = @ \cup {NewHandle(@)}, !.app.interval = NewHandle(S.timers)]

userEffectNoCleanup(S) == S

\* the cleanup of the effect on [user]: clearInterval(interval), when the effect set one
userEffectCleanup(S) == [S EXCEPT !.timers = @ \ {S.app.interval}, !.app.interval = 0]

\* the effect on [user]
userEffect(S) ==
    IF S.app.user = NoUser THEN S
    ELSE setInterval(StartTask(StartTask(S, "loadEquipment", <<>>, Ctx(S, "effect", 0)),
                               "loadAssignments", <<>>, Ctx(S, "effect", 0)))

\* MaintenanceScheduler mounts (a new instance, whose effect loads the tasks) or unmounts
maintEffect(before, S) ==
    IF Shows(S.app, "maintenance") /\ ~Shows(before, "maintenance")
    THEN StartTask([S EXCEPT !.maint = [maint0 EXCEPT !.gen = S.maint.gen + 1]],
                   "loadMaintenanceTasks", <<>>, Ctx(S, "effect", S.maint.gen + 1))
    ELSE IF ~Shows(S.app, "maintenance") /\ Shows(before, "maintenance")
    THEN [S EXCEPT !.maint = [maint0 EXCEPT !.gen = S.maint.gen]]
    ELSE S

\* RouteOptimizer mounts (its effect loads the routes and the points) or unmounts
routeEffect(before, S) ==
    IF Shows(S.app, "routes") /\ ~Shows(before, "routes")
    THEN LET c == Ctx(S, "effect", S.route.gen + 1)
             S1 == [S EXCEPT !.route = [route0 EXCEPT !.gen = S.route.gen + 1]]
         IN  StartTask(StartTask(S1, "loadRoutes", <<>>, c), "loadRoutePoints", <<>>, c)
    ELSE IF ~Shows(S.app, "routes") /\ Shows(before, "routes")
    THEN [S EXCEPT !.route = [route0 EXCEPT !.gen = S.route.gen]]
    ELSE S

\* a step ends: the handlers still waiting stay in flight, the ones it started join them
Commit(S, kept) ==
    /\ app' = S.app
    /\ maint' = S.maint
    /\ route' = S.route
    /\ timers' = S.timers
    /\ out' = S.out
    /\ tasks' = kept \o S.spawn
    /\ dialog' = dialog

Room == Len(tasks) < MaxInFlight

UserEvent(S) ==
    /\ budget > 0
    /\ budget' = budget - 1
    /\ Commit(S, tasks)
    /\ UNCHANGED <<db, now, auth>>

----------------------------------------------------------------------------
(* Steps of the backend and of the handlers in flight *)

Top(task) == task.stack[Len(task.stack)]

SetTop(task, f) == [task EXCEPT !.stack[Len(task.stack)] = f]

Remove(s, i) == SubSeq(s, 1, i - 1) \o SubSeq(s, i + 1, Len(s))

Answer(i, e) ==
    /\ db' = e.db
    /\ tasks' = [tasks EXCEPT ![i] = SetTop(@, [Top(@) EXCEPT !.resp = Spread(e.resp, [state |-> "done"])])]

\* the backend answers the request of task i, or the call fails (network, server)
BackendProcess(i, fails) ==
    /\ Top(tasks[i]).resp = Pending
    /\ fails => budget > 0
    /\ budget' = IF fails THEN budget - 1 ELSE budget
    /\ Answer(i, IF fails THEN [resp |-> Failed, db |-> db] ELSE Exec(db, Top(tasks[i]).req, auth, now))
    /\ out' = NoOut
    /\ UNCHANGED <<app, maint, route, now, auth, timers, dialog>>

\* task i ran to d on its answer; out.rejectedIn names the handler whose await rejected
Delivered(i, d) ==
    Commit([d.S EXCEPT !.out.rejectedIn = IF Top(tasks[i]).resp.ok THEN "none" ELSE Top(tasks[i]).fn],
           IF d.stack = <<>> THEN Remove(tasks, i) ELSE [tasks EXCEPT ![i] = [@ EXCEPT !.stack = d.stack]])

\* the answer reaches task i, which runs up to its next await
Deliver(i) ==
    /\ Top(tasks[i]).resp.state = "done"
    /\ Delivered(i, Drive(Cur, tasks[i].stack, Top(tasks[i]).resp,
                          [u |-> tasks[i].u, origin |-> tasks[i].origin, gen |-> tasks[i].gen, now |-> now]))
    /\ UNCHANGED <<db, now, auth, budget>>

\* time passes
Tick ==
    /\ now < MaxTime
    /\ now' = now + 1
    /\ budget > 0
    /\ budget' = budget - 1
    /\ out' = NoOut
    /\ UNCHANGED <<db, app, maint, route, tasks, auth, timers, dialog>>

\* what Math.random() returns in the four calls of one update
MetricDraws == {<<0, 0, 0, 0>>, <<RandSteps - 1, 0, RandSteps - 1, RandSteps - 1>>}

\* the updater of setProductionMetrics; (r - 0.5) * n is (2 k - RandSteps) * n units
updateProductionMetrics(S, k) ==
    SetApp(S, "productionMetrics",
           [tonsPerHour |-> S.app.productionMetrics.tonsPerHour + (2 * k[1] - RandSteps) * 100,
            dailyTotal |-> S.app.productionMetrics.dailyTotal + 2 * k[2] * 50,
            targetPercentage |->
                Min({100 * Unit, S.app.productionMetrics.targetPercentage + (2 * k[3] - RandSteps) * 2}),
            equipmentUtilization |->
                Min({100 * Unit, S.app.productionMetrics.equipmentUtilization + (2 * k[4] - RandSteps) * 3})])

\* an interval fires, 30 seconds after it was set or last fired
TimerTick(h, k) ==
    /\ h \in timers
    /\ now < MaxTime
    /\ now' = now + 1
    /\ budget > 0
    /\ budget' = budget - 1
    /\ Commit(updateProductionMetrics(Cur, k), tasks)
    /\ UNCHANGED <<db, auth>>

----------------------------------------------------------------------------
(* What the user and the auth client do to App *)

AuthStates ==
    {[user |-> NoUser, isLoading |-> TRUE], [user |-> NoUser, isLoading |-> FALSE]}
    \cup {[user |-> u, isLoading |-> FALSE] : u \in Users}

\* onAuthStateChanged calls back with state; fresh: state.user is an object App has not seen
AuthStateChanged(state, fresh) ==
    /\ app.mounted
    /\ Room
    /\ state.user # app.user \/ state.isLoading # app.loading \/ (fresh /\ state.user # NoUser)
    /\ LET S1 == SetApp(SetApp(Cur, "user", state.user), "loading", state.isLoading)
           S2 == IF state.user # app.user \/ (fresh /\ state.user # NoUser)
                 THEN userEffect(userEffectCleanup(S1)) ELSE S1
       IN  /\ budget > 0
           /\ budget' = budget - 1
           /\ Commit(routeEffect(app, maintEffect(app, S2)), tasks)
    /\ auth' = state.user
    /\ UNCHANGED <<db, now>>

\* App is torn down: every effect is cleaned up and the views go with it
Unmount ==
    /\ app.mounted
    /\ LET S1 == userEffectCleanup([Cur EXCEPT !.app.mounted = FALSE])
       IN  UserEvent(routeEffect(app, maintEffect(app, S1)))

Views == {"dispatch", "maintenance", "routes", "analytics"}

setActiveView(view) ==
    /\ Visible(app)
    /\ view # app.activeView
    /\ Room
    /\ UserEvent(routeEffect(app, maintEffect(app, SetApp(Cur, "activeView", view))))

\* the refresh button of the fleet card
ClickRefresh ==
    /\ Shows(app, "dispatch")
    /\ Room
    /\ UserEvent(StartTask(Cur, "loadEquipment", <<>>, Ctx(Cur, "button", 0)))

\* the equipment the user acts on
Targets == {"exc-002", "dum-001"}

Shown(list) == {list[i] : i \in {j \in DOMAIN list : list[j].id \in Targets}}

\* onClick of an equipment card
SelectEquipment(item) ==
    /\ Shows(app, "dispatch")
    /\ item \in Shown(app.equipment)
    /\ app.selectedEquipment # <<item>>
    /\ UserEvent(SetApp(Cur, "selectedEquipment", <<item>>))

\* the pause/play button of a card or of the details panel
toggledStatus(equipment) == IF equipment.status = "active" THEN "idle" ELSE "active"

ClickCardToggle(item) ==
    /\ Shows(app, "dispatch")
    /\ item \in Shown(app.equipment)
    /\ item.status # "maintenance"
    /\ Room
    /\ UserEvent(StartTask(Cur, "updateEquipmentStatus",
                           [equipmentId |-> item.id, newStatus |-> toggledStatus(item)],
                           Ctx(Cur, "status", 0)))

ClickPanelToggle ==
    /\ Shows(app, "dispatch")
    /\ app.selectedEquipment # <<>>
    /\ app.selectedEquipment[1].status # "maintenance"
    /\ Room
    /\ UserEvent(StartTask(Cur, "updateEquipmentStatus",
                           [equipmentId |-> app.selectedEquipment[1].id,
                            newStatus |-> toggledStatus(app.selectedEquipment[1])],
                           Ctx(Cur, "status", 0)))

ClickSendToMaintenance ==
    /\ Shows(app, "dispatch")
    /\ app.selectedEquipment # <<>>
    /\ Room
    /\ UserEvent(StartTask(Cur, "updateEquipmentStatus",
                           [equipmentId |-> app.selectedEquipment[1].id, newStatus |-> "maintenance"],
                           Ctx(Cur, "status", 0)))

\* the dialog of the assignments card opens or closes
setIsCreateAssignmentOpen(open) ==
    /\ Shows(app, "dispatch")
    /\ app.isCreateAssignmentOpen # open
    /\ UserEvent(SetApp(Cur, "isCreateAssignmentOpen", open))

\* the ids the select of a form offers and the user picks from
OptionIds(equipment, Test(_)) == {equipment[i].id : i \in {j \in DOMAIN equipment : Test(equipment[j])}}

FormYards == {"yard-001"}
FormPriorities == {"medium", "high"}

\* the formData CreateAssignmentDialog can hold when its submit button is enabled
AssignmentForms(equipment) ==
    {[excavatorId |-> e, dumperId |-> d, crusherId |-> "", dumpyardId |-> y, priority |-> p, estimatedTime |-> 60] :
        e \in OptionIds(equipment, LAMBDA eq : eq.type = "excavator" /\ eq.status # "maintenance") \cap Targets,
        d \in OptionIds(equipment, LAMBDA eq : eq.type = "dumper" /\ eq.status # "maintenance") \cap Targets,
        y \in OptionIds(equipment, LAMBDA eq : eq.type = "dumpyard") \cap FormYards,
        p \in FormPriorities}

\* handleSubmit of CreateAssignmentDialog
SubmitAssignment(formData) ==
    /\ Shows(app, "dispatch")
    /\ app.isCreateAssignmentOpen
    /\ formData \in AssignmentForms(app.equipment)
    /\ Room
    /\ UserEvent(StartTask(Cur, "createAssignment", [assignmentData |-> formData], Ctx(Cur, "form", 0)))

----------------------------------------------------------------------------
(* What the user does in MaintenanceScheduler *)

setIsCreateTaskOpen(open) ==
    /\ Shows(app, "maintenance")
    /\ maint.isCreateTaskOpen # open
    /\ UserEvent(SetMaint(Cur, Ctx(Cur, "view", maint.gen), "isCreateTaskOpen", open))

FormDates == {0, MaxTime}

\* the formData CreateMaintenanceTaskDialog can hold
TaskForms(equipment) ==
    {[equipmentId |-> e, type |-> "preventive", priority |-> "medium", scheduledDate |-> d,
      estimatedDuration |-> 4, description |-> "", assignedTechnician |-> ""] :
        e \in (OptionIds(equipment, LAMBDA eq : TRUE) \cap Targets) \cup {""}, d \in FormDates}

\* handleSubmit of CreateMaintenanceTaskDialog: the taskData it passes on, <<>> when it returns early
submittedTask(formData, equipment) ==
    LET selectedEquipment == Find(equipment, LAMBDA eq : eq.id = formData.equipmentId)
    IN  IF selectedEquipment = <<>> THEN <<>>
        ELSE << Spread(formData, [equipmentName |-> selectedEquipment[1].name,
                                  scheduledDate |-> formData.scheduledDate,
                                  status |-> "scheduled"]) >>

SubmitTask(formData) ==
    /\ Shows(app, "maintenance")
    /\ maint.isCreateTaskOpen
    /\ formData \in TaskForms(app.equipment)
    /\ Room
    /\ LET taskData == submittedTask(formData, app.equipment)
       IN  UserEvent(IF taskData = <<>> THEN Cur
                     ELSE StartTask(Cur, "createMaintenanceTask", [taskData |-> taskData[1]],
                                    Ctx(Cur, "form", maint.gen)))

\* what the user has typed in the notes of a card
Notes == {"", " ", "done"}
Trim(text) == IF text = " " THEN "" ELSE text

\* the tasks that have a card, and the statuses the buttons of a card pass to handleStatusUpdate
Cards == overdueTasks(maint.maintenanceTasks, now) \o inProgressTasks(maint.maintenanceTasks)
             \o upcomingTasks(maint.maintenanceTasks, now)

ButtonStatuses(task) ==
    IF task.status = "scheduled" THEN {"in_progress", "completed"}
    ELSE IF task.status = "in_progress" THEN {"completed"}
    ELSE {}

\* handleStatusUpdate of MaintenanceTaskCard
handleStatusUpdate(S, task, status, notes, c) ==
    IF status = "completed" /\ Trim(notes) = "" THEN S
    ELSE StartTask(S, "updateTaskStatus",
                   [taskId |-> task.id, status |-> status, notes |-> notes,
                    maintenanceTasks |-> S.maint.maintenanceTasks], c)

ClickTaskButton(task, status, notes) ==
    /\ Shows(app, "maintenance")
    /\ task \in {Cards[i] : i \in DOMAIN Cards}
    /\ status \in ButtonStatuses(task)
    /\ Room
    /\ UserEvent(handleStatusUpdate(Cur, task, status, notes, Ctx(Cur, "button", maint.gen)))

----------------------------------------------------------------------------
(* What the user does in RouteOptimizer *)

\* the values of Math.random() in one run of optimizeRoutes, one for each dumper
Draws(k, n) == [j \in 1 .. n |-> (k + j - 1) % RandSteps]

ClickOptimize(k) ==
    /\ Shows(app, "routes")
    /\ ~route.isOptimizing
    /\ Room
    /\ UserEvent(StartTask(Cur, "optimizeRoutes",
                           [equipment |-> app.equipment, routePoints |-> route.routePoints,
                            rnd |-> Draws(k, Len(app.equipment))],
                           Ctx(Cur, "button", route.gen)))

\* the Activate button of the card of a planned route
ClickActivate(r) ==
    /\ Shows(app, "routes")
    /\ r \in {route.routes[i] : i \in DOMAIN route.routes}
    /\ r.status = "planned"
    /\ Room
    /\ UserEvent(StartTask(Cur, "activateRoute", [routeId |-> r.id], Ctx(Cur, "button", route.gen)))

setIsCreateRouteOpen(open) ==
    /\ Shows(app, "routes")
    /\ route.isCreateRouteOpen # open
    /\ UserEvent(SetRoute(Cur, Ctx(Cur, "view", route.gen), "isCreateRouteOpen", open))

FormPoints == {"point-1", "point-4", ""}

\* the formData CreateRouteDialog can hold
RouteForms(equipment, routePoints) ==
    {[equipmentId |-> e, startPointId |-> p1, endPointId |-> p2, priority |-> "medium"] :
        e \in OptionIds(equipment, LAMBDA eq : eq.type = "dumper" /\ eq.status # "maintenance") \cap Targets,
        p1 \in (OptionIds(routePoints, LAMBDA p : TRUE) \cup {""}) \cap FormPoints,
        p2 \in (OptionIds(routePoints, LAMBDA p : TRUE) \cup {""}) \cap FormPoints}

SubmitRoute(formData, k) ==
    /\ Shows(app, "routes")
    /\ route.isCreateRouteOpen
    /\ formData \in RouteForms(app.equipment, route.routePoints)
    /\ Room
    /\ UserEvent(StartTask(Cur, "CreateRouteDialog",
                           [formData |-> formData, equipment |-> app.equipment,
                            routePoints |-> route.routePoints, rnd |-> k],
                           Ctx(Cur, "form", route.gen)))

----------------------------------------------------------------------------
(* The whole program *)

\* what an earlier session of u1 and other clients of the backend have left there
storedAssignments == <<
    [id |-> "assign-a", excavatorId |-> "exc-001", dumperId |-> "dum-001", dumpyardId |-> "yard-001",
     priority |-> "high", estimatedTime |-> 60, progress |-> 40, status |-> "active", userId |-> "u1",
     createdAt |-> 0],
    [id |-> "assign-b", excavatorId |-> "exc-999", dumperId |-> "dum-001", dumpyardId |-> "yard-001",
     priority |-> "medium", estimatedTime |-> 45, progress |-> 10, status |-> "active", userId |-> "u1",
     createdAt |-> 0],
    [id |-> "assign-c", excavatorId |-> "exc-002", priority |-> "low", estimatedTime |-> 30, progress |-> 0,
     status |-> "active", userId |-> "u1", createdAt |-> 0] >>

storedTasks == <<
    [id |-> "maint-a", equipmentId |-> "exc-003", equipmentName |-> "Hitachi EX1200", type |-> "corrective",
     priority |-> "high", scheduledDate |-> 0, estimatedDuration |-> 4, description |-> "", status |-> "scheduled",
     userId |-> "u1", createdAt |-> 0],
    [id |-> "maint-b", equipmentId |-> "dum-004", equipmentName |-> "Volvo A60H", type |-> "preventive",
     priority |-> "medium", scheduledDate |-> 0, estimatedDuration |-> 2, description |-> "",
     status |-> "in_progress", userId |-> "u1", createdAt |-> 0] >>

storedRoutes == <<
    [id |-> "route-0-dum-002", equipmentId |-> "dum-002", equipmentName |-> "Komatsu HD785",
     points |-> Stringify(<<samplePoints[2], samplePoints[6]>>), totalDistance |-> 34, estimatedTime |-> 6,
     fuelConsumption |-> 10, efficiency |-> 91, status |-> "planned", priority |-> "medium", userId |-> "u1",
     createdAt |-> 0] >>

StoredDb ==
    [EmptyDb EXCEPT
        !.optimizedRoutes = storedRoutes,
        !.equipment = Map(sampleEquipment, LAMBDA item : Spread(item, [userId |-> "u1", createdAt |-> 0])),
        !.assignments = storedAssignments,
        !.maintenanceTasks = storedTasks,
        !.routePoints = Map(samplePoints, LAMBDA point :
                            Spread(point, [coordinates |-> Stringify(point.coordinates), userId |-> "u1",
                                           createdAt |-> 0]))]

\* App as it is once user has signed in and its loads have been answered from d
loadedApp(d, user, view) ==
    [app0 EXCEPT
        !.user = user, !.loading = FALSE, !.activeView = view, !.interval = 1,
        !.equipment = Map(DbList(d, [coll |-> "equipment", where |-> [userId |-> user],
                                     orderBy |-> [key |-> "type", dir |-> "asc", kind |-> "str"]]),
                          EquipmentOfItem),
        !.assignments = Map(DbList(d, [coll |-> "assignments", where |-> [userId |-> user, status |-> "active"],
                                       orderBy |-> [key |-> "createdAt", dir |-> "desc", kind |-> "num"]]),
                            AssignmentOfItem)]

loadedMaint(d, user) ==
    [maint0 EXCEPT
        !.gen = 1,
        !.maintenanceTasks =
            Map(DbList(d, [coll |-> "maintenanceTasks", where |-> [userId |-> user],
                           orderBy |-> [key |-> "scheduledDate", dir |-> "asc", kind |-> "num"]]),
                TaskOfItem)]

loadedRoute(d, user) ==
    [route0 EXCEPT
        !.gen = 1,
        !.routes = Map(DbList(d, [coll |-> "optimizedRoutes", where |-> [userId |-> user],
                                  orderBy |-> [key |-> "createdAt", dir |-> "desc", kind |-> "num"]]),
                       RouteOfItem),
        !.routePoints = Map(DbList(d, [coll |-> "routePoints", where |-> [userId |-> user],
                                       orderBy |-> [key |-> "name", dir |-> "asc", kind |-> "str"]]),
                            PointOfItem)]

\* the program has just been constructed
Boot ==
    /\ app = app0
    /\ maint = maint0
    /\ route = route0
    /\ auth = NoUser
    /\ timers = {}

\* u1 is signed in, view is shown, and every load has been answered
Loaded(d, view) ==
    /\ db = d
    /\ app = loadedApp(db, "u1", view)
    /\ maint = IF view = "maintenance" THEN loadedMaint(db, "u1") ELSE maint0
    /\ route = IF view = "routes" THEN loadedRoute(db, "u1") ELSE route0
    /\ auth = "u1"
    /\ timers = {1}

\* useState of AssignmentDialog; equipment is the prop, calls the onCreateAssignment calls of
\* the last handler
dialog0 ==
    [open |-> FALSE, excavatorId |-> "", dumperId |-> "", crusherId |-> "", dumpyardId |-> "",
     priority |-> "medium", estimatedTime |-> 60, equipment |-> <<>>, calls |-> <<>>]

Idle ==
    /\ tasks = <<>>
    /\ dialog = dialog0
    /\ now = 0
    /\ out = NoOut
    /\ budget = MaxOps

\* the program starts, over an empty backend or over what earlier sessions have stored; or it is
\* met later, in a state such a start leads to
Init ==
    /\ \/ db \in {EmptyDb, StoredDb} /\ Boot
       \/ \E view \in Views : Loaded(StoredDb, view)
    /\ Idle

Next ==
    \/ \E i \in DOMAIN tasks, fails \in BOOLEAN : BackendProcess(i, fails)
    \/ \E i \in DOMAIN tasks : Deliver(i)
    \/ Tick
    \/ \E h \in timers, k \in MetricDraws : TimerTick(h, k)
    \/ \E state \in AuthStates, fresh \in BOOLEAN : AuthStateChanged(state, fresh)
    \/ Unmount
    \/ \E view \in Views : setActiveView(view)
    \/ ClickRefresh
    \/ \E item \in Shown(app.equipment) : SelectEquipment(item)
    \/ \E item \in Shown(app.equipment) : ClickCardToggle(item)
    \/ ClickPanelToggle
    \/ ClickSendToMaintenance
    \/ \E open \in BOOLEAN : setIsCreateAssignmentOpen(open)
    \/ \E formData \in AssignmentForms(app.equipment) : SubmitAssignment(formData)
    \/ \E open \in BOOLEAN : setIsCreateTaskOpen(open)
    \/ \E formData \in TaskForms(app.equipment) : SubmitTask(formData)
    \/ \E i \in DOMAIN Cards, status \in {"in_progress", "completed"}, notes \in Notes :
          ClickTaskButton(Cards[i], status, notes)
    \/ \E k \in {0, RandSteps - 1} : ClickOptimize(k)
    \/ \E i \in DOMAIN route.routes : ClickActivate(route.routes[i])
    \/ \E open \in BOOLEAN : setIsCreateRouteOpen(open)
    \/ \E formData \in RouteForms(app.equipment, route.routePoints), k \in {0, RandSteps - 1} :
          SubmitRoute(formData, k)

Spec == Init /\ [][Next]_vars

----------------------------------------------------------------------------
(* The dispatch view *)

AvgShown == getFleetMetrics(app.equipment).avgEfficiency

\* C3: whenever the dispatch view is on screen, the fleet efficiency it displays is the arithmetic
\* mean of the efficiency values (missing ones as 0) of the equipment list App holds, a number
FleetEfficiencyIsMean ==
    Shows(app, "dispatch") =>
        /\ ~AvgShown.nan
        /\ AvgShown.num = SumSeq([i \in DOMAIN app.equipment |->
                                     IF "efficiency" \in DOMAIN app.equipment[i]
                                     THEN app.equipment[i].efficiency ELSE 0])
        /\ AvgShown.den = Len(app.equipment)

\* assignment names under key no equipment of the list
Dangling(assignment, equipment, key) ==
    \A i \in DOMAIN equipment : ~(key \in DOMAIN assignment /\ equipment[i].id = assignment[key])

RowRenders(row, assignment, equipment) ==
    /\ ~row.threw
    /\ Dangling(assignment, equipment, "excavatorId") => row.excavator = <<>> /\ row.excavatorName = <<>>
    /\ Dangling(assignment, equipment, "dumperId") => row.dumper = <<>> /\ row.dumperName = <<>>

\* C4: every row of the active-assignments list renders without a TypeError; an excavatorId or
\* dumperId that names no equipment of the list gives no equipment and an absent name
AssignmentRowsRender ==
    Shows(app, "dispatch") =>
        \A i \in DOMAIN app.assignments :
            RowRenders(assignmentRow(app.assignments[i], app.equipment), app.assignments[i], app.equipment)

\* a row whose excavatorId names no equipment is on screen, next to equipment
DanglingRowShown ==
    /\ Shows(app, "dispatch")
    /\ app.equipment # <<>>
    /\ \E i \in DOMAIN app.assignments :
          /\ "excavatorId" \in DOMAIN app.assignments[i]
          /\ Dangling(app.assignments[i], app.equipment, "excavatorId")

----------------------------------------------------------------------------
(* Maintenance statuses *)

\* what a request writes as the status of a maintenance task: <<>> when it writes none
StatusWritten(req) ==
    IF req.op = "create" THEN <<req.rec.status>>
    ELSE IF req.op = "update" /\ "status" \in DOMAIN req.patch THEN <<req.patch.status>>
    ELSE <<>>

MaintenanceRequestOk(req) ==
    req.coll = "maintenanceTasks" =>
        /\ req.op \in {"list", "create", "update"}
        /\ req.op = "create" => StatusWritten(req) = <<"scheduled">>
        /\ req.op = "update" => StatusWritten(req) \in {<<"in_progress">>, <<"completed">>}

IsOverdue(task, t) == task.status = "scheduled" /\ task.scheduledDate < t

\* C5: no request writes the status overdue: a task is created as scheduled, updateTaskStatus runs
\* with in_progress or completed only and writes that status; and the tasks listed as overdue are
\* exactly the ones whose status is scheduled and whose scheduledDate is before the current time
OverdueIsDerived ==
    /\ \A i \in DOMAIN out.reqs : MaintenanceRequestOk(out.reqs[i])
    /\ \A i \in DOMAIN db.maintenanceTasks : db.maintenanceTasks[i].status # "overdue"
    /\ \A i \in DOMAIN tasks : \A j \in DOMAIN tasks[i].stack :
          tasks[i].stack[j].fn = "updateTaskStatus" => tasks[i].stack[j].a.status \in {"in_progress", "completed"}
    /\ Shows(app, "maintenance") =>
          /\ \A i \in DOMAIN maint.maintenanceTasks :
                IsOverdue(maint.maintenanceTasks[i], now)
                    <=> \E j \in DOMAIN overdueTasks(maint.maintenanceTasks, now) :
                            overdueTasks(maint.maintenanceTasks, now)[j] = maint.maintenanceTasks[i]
          /\ \A j \in DOMAIN overdueTasks(maint.maintenanceTasks, now) :
                IsOverdue(overdueTasks(maint.maintenanceTasks, now)[j], now)

\* a task is listed as overdue while the status button of a card writes a status
OverdueListedAndStatusWritten ==
    /\ Shows(app, "maintenance")
    /\ overdueTasks(maint.maintenanceTasks, now) # <<>>
    /\ \E i \in DOMAIN out.reqs : out.reqs[i].coll = "maintenanceTasks" /\ out.reqs[i].op = "update"

----------------------------------------------------------------------------
(* Records are never deleted *)

\* C6: no step removes a record: the ids of every collection only grow
IdsOnlyGrow == [][\A coll \in Collections : Ids(db[coll]) \subseteq Ids(db'[coll])]_vars

\* the backend has applied an update and a create
UpdatedAndCreated ==
    /\ db.equipmentLogs # <<>>
    /\ \E i \in DOMAIN db.equipment : "updatedAt" \in DOMAIN db.equipment[i]

----------------------------------------------------------------------------
(* Rejections *)

ErrorToasts == SelectSeq(out.toasts, LAMBDA toast : toast.kind = "error")

\* C7: whenever a backend call of App, MaintenanceScheduler or RouteOptimizer rejects, the handler
\* that awaited it catches the rejection and shows an error toast
RejectionsShowToast ==
    out.rejectedIn # "none" => out.caught = <<out.rejectedIn>> /\ ErrorToasts # <<>>

----------------------------------------------------------------------------
(* The production-metrics timer *)

TimerHeldWhileSignedIn ==
    /\ Cardinality(timers) <= 1
    /\ timers # {} => app.mounted /\ app.user # NoUser
    /\ timers = IF app.interval = 0 THEN {} ELSE {app.interval}

TimerStepAllowed ==
    /\ ~(timers' \subseteq timers) => app'.mounted /\ app'.user # NoUser
    /\ app'.productionMetrics # app.productionMetrics => app.mounted /\ app.user # NoUser /\ timers # {}

\* C8: at most one interval is set at any time, and only while App is mounted with a user signed in:
\* it is set when a user signs in, cleared when the user changes or App is torn down, and the
\* production metrics change only on a tick of it, so never after the user is gone or App is unmounted
OneTimerWhileSignedIn == []TimerHeldWhileSignedIn /\ [][TimerStepAllowed]_vars

\* the user has changed from u1, whose equipment is still listed, to u2, and one interval is set
TimerResetForNextUser ==
    /\ app.user = "u2"
    /\ app.equipment # <<>>
    /\ Cardinality(timers) = 1
    /\ app.interval # 0

----------------------------------------------------------------------------
(* Where created records come from *)

IsCreate(req) == req.op \in {"create", "createMany"}

\* C9 as the specification states it: every create is sent for a form submission
CreatesComeFromForms ==
    \A i \in DOMAIN out.reqs : IsCreate(out.reqs[i]) => out.reqs[i].origin = "form"

FormCreators ==
    {<<"assignments", "create", "createAssignment">>,
     <<"maintenanceTasks", "create", "createMaintenanceTask">>,
     <<"optimizedRoutes", "create", "CreateRouteDialog">>}

OtherCreators ==
    {<<"equipment", "createMany", "initializeSampleData">>,
     <<"routePoints", "createMany", "initializeSampleRoutePoints">>,
     <<"equipmentLogs", "create", "updateEquipmentStatus">>,
     <<"optimizedRoutes", "create", "optimizeRoutes">>}

CreateAccountedFor(req) ==
    IF req.origin = "form" THEN <<req.coll, req.op, req.by>> \in FormCreators
    ELSE <<req.coll, req.op, req.by>> \in OtherCreators

\* C9: a create sent for a form submission is an assignment by createAssignment, a maintenance task by
\* createMaintenanceTask or a route by CreateRouteDialog; every other create is the sample equipment
\* or the sample route points seeded by a load that found none, the log entry of an equipment
\* status change, or a route generated by the Optimize button
CreatesAccountedFor ==
    \A i \in DOMAIN out.reqs : IsCreate(out.reqs[i]) => CreateAccountedFor(out.reqs[i])

\* a load that found no equipment seeds the sample equipment
LoadSeedsSampleEquipment ==
    \E i \in DOMAIN out.reqs :
        /\ out.reqs[i].op = "createMany"
        /\ out.reqs[i].by = "initializeSampleData"
        /\ out.reqs[i].origin = "effect"

----------------------------------------------------------------------------
(* Route generation over the route points a user can have stored *)

\* what a stored point says of its capacity and load
PointFields(n) ==
    CASE n = 1 -> [capacity |-> 5]
      [] n = 2 -> [capacity |-> 9, currentLoad |-> 4]
      [] n = 3 -> <<>>
      [] n = 4 -> [currentLoad |-> 2]

PointKinds == {"loading", "dumping"} \X (1 .. 4)

\* the stored route points of u1, in the order of their names
storedPoints(kinds) ==
    [i \in DOMAIN kinds |->
        Spread([id |-> "point-" \o ToString(i), name |-> Alphabetical[i], type |-> kinds[i][1],
                coordinates |-> Stringify([x |-> 100 * i, y |-> 0]), waitTime |-> i, userId |-> "u1",
                createdAt |-> 0],
               PointFields(kinds[i][2]))]

\* one event of the user, at the routes view
IdleOnce ==
    /\ tasks = <<>>
    /\ dialog = dialog0
    /\ now = 0
    /\ out = NoOut
    /\ budget = 1

InitPoints ==
    /\ \E n \in 0 .. MaxPoints : \E kinds \in [1 .. n -> PointKinds] :
          Loaded([StoredDb EXCEPT !.routePoints = storedPoints(kinds)], "routes")
    /\ IdleOnce

NextPoints ==
    \/ ClickOptimize(0)
    \/ \E i \in DOMAIN tasks : BackendProcess(i, FALSE)
    \/ \E i \in DOMAIN tasks : Deliver(i)

SpecPoints == InitPoints /\ [][NextPoints]_vars

Free(p) ==
    (IF "capacity" \in DOMAIN p THEN p.capacity ELSE 0) - (IF "currentLoad" \in DOMAIN p THEN p.currentLoad ELSE 0)

FirstWithMostFree(points) ==
    points[Min({i \in DOMAIN points : \A j \in DOMAIN points : Free(points[i]) >= Free(points[j])})]

OfType(points, type) == SelectSeq(points, LAMBDA p : p.type = type)

RunUsesBest(a) ==
    IF OfType(a.routePoints, "loading") = <<>> \/ OfType(a.routePoints, "dumping") = <<>>
    THEN a.optimizedRoutes = <<>>
    ELSE /\ Len(a.optimizedRoutes) = Len(activeDumpers(a.equipment))
         /\ \A j \in DOMAIN a.optimizedRoutes :
               /\ a.optimizedRoutes[j].equipmentId = activeDumpers(a.equipment)[j].id
               /\ a.optimizedRoutes[j].points = << FirstWithMostFree(OfType(a.routePoints, "loading")),
                                                   FirstWithMostFree(OfType(a.routePoints, "dumping")) >>

IsRun(f) == f.fn = "optimizeRoutes" /\ "optimizedRoutes" \in DOMAIN f.a

TiedLoading(points) ==
    \E j, k \in DOMAIN points :
        /\ j < k
        /\ Free(points[j]) = Free(points[k])
        /\ \A m \in DOMAIN points : Free(points[j]) >= Free(points[m])

----------------------------------------------------------------------------
(* Route efficiency over every value Math.random() can return *)

\* the routes view of u1 with the dialog closed or open, and one event of the user
InitEfficiency ==
    /\ db = StoredDb
    /\ app = loadedApp(db, "u1", "routes")
    /\ maint = maint0
    /\ \E open \in BOOLEAN : route = [loadedRoute(db, "u1") EXCEPT !.isCreateRouteOpen = open]
    /\ auth = "u1"
    /\ timers = {1}
    /\ IdleOnce

NextEfficiency ==
    \/ \E k \in RandomValues : ClickOptimize(k)
    \/ \E formData \in RouteForms(app.equipment, route.routePoints), k \in RandomValues : SubmitRoute(formData, k)
    \/ \E i \in DOMAIN tasks : BackendProcess(i, FALSE)
    \/ \E i \in DOMAIN tasks : Deliver(i)

SpecEfficiency == InitEfficiency /\ [][NextEfficiency]_vars

\* the routes sent to the backend by the last step, and the stored ones
RoutesSent == SelectSeq(out.reqs, LAMBDA req : req.coll = "optimizedRoutes" /\ req.op = "create")

EfficienciesWithin(lo, hi) ==
    /\ \A i \in DOMAIN RoutesSent : RoutesSent[i].rec.efficiency \in lo .. hi
    /\ \A i \in DOMAIN db.optimizedRoutes : db.optimizedRoutes[i].efficiency \in lo .. hi
    /\ \A i \in DOMAIN tasks :
          IsRun(tasks[i].stack[1]) =>
              \A j \in DOMAIN tasks[i].stack[1].a.optimizedRoutes :
                  tasks[i].stack[1].a.optimizedRoutes[j].efficiency \in lo .. hi

\* C2 as the specification states it: the efficiency of every route is at least 85 and below 100
EfficiencyBelow100 == EfficienciesWithin(85, 99)

\* C2: the efficiency of every route, generated or entered in the dialog, is a whole number from 85
\* to 100, both included, for every value the random source returns
EfficiencyUpTo100 == EfficienciesWithin(85, 100)

\* a generated route and a route entered in the dialog are stored with efficiency 100
RouteStoredWith(by, efficiency) ==
    \E i \in DOMAIN RoutesSent : RoutesSent[i].by = by /\ RoutesSent[i].rec.efficiency = efficiency

GeneratedRouteAt100 == RouteStoredWith("optimizeRoutes", 100)

----------------------------------------------------------------------------
(* createAssignment over the Partial<Assignment> a caller can pass *)

\* <<>> is a field left out
StatusChoices == {<<>>, <<"active">>, <<"completed">>}
ProgressChoices == {<<>>, <<50>>, <<100>>}

Optional(key, choice) == IF choice = <<>> THEN <<>> ELSE [k \in {key} |-> choice[1]]

PartialAssignment(status, progress) ==
    Spread(Spread([excavatorId |-> "exc-002", dumperId |-> "dum-001", dumpyardId |-> "yard-001",
                   priority |-> "medium", estimatedTime |-> 60],
                  Optional("status", status)),
           Optional("progress", progress))

\* createAssignment(assignmentData), called the way onCreateAssignment calls it
CallCreateAssignment(assignmentData) ==
    /\ Shows(app, "dispatch")
    /\ Room
    /\ UserEvent(StartTask(Cur, "createAssignment", [assignmentData |-> assignmentData], Ctx(Cur, "form", 0)))

InitAssign ==
    /\ Loaded(StoredDb, "dispatch")
    /\ Idle

NextAssign ==
    \/ \E status \in StatusChoices, progress \in ProgressChoices :
          CallCreateAssignment(PartialAssignment(status, progress))
    \/ \E i \in DOMAIN tasks, fails \in BOOLEAN : BackendProcess(i, fails)
    \/ \E i \in DOMAIN tasks : Deliver(i)
    \/ Tick

SpecAssign == InitAssign /\ [][NextAssign]_vars

IsPending(rec) == rec.status = "pending" /\ rec.progress = 0

\* C10: every assignment createAssignment sends to the backend, and so every assignment it stores,
\* has status pending and progress 0, whatever status and progress its argument carries
CreatedAsPending ==
    /\ \A i \in DOMAIN out.reqs :
          (out.reqs[i].by = "createAssignment" /\ IsCreate(out.reqs[i])) => IsPending(out.reqs[i].rec)
    /\ \A i \in DOMAIN db.assignments :
          db.assignments[i].id \notin Ids(storedAssignments) => IsPending(db.assignments[i])

\* createAssignment has stored the assignment of an argument with another status and progress
StoredAssignmentOf(f) ==
    /\ f.fn = "createAssignment"
    /\ f.resp.state = "done"
    /\ f.resp.ok
    /\ "status" \in DOMAIN f.a.assignmentData
    /\ "progress" \in DOMAIN f.a.assignmentData
    /\ f.a.assignmentData.status = "completed"
    /\ f.a.assignmentData.progress = 100
    /\ f.req.rec.id \in Ids(db.assignments)

OverridingArgumentStored == \E i \in DOMAIN tasks : StoredAssignmentOf(tasks[i].stack[1])

----------------------------------------------------------------------------
(* C11: repeated runs of optimizeRoutes *)

\* the routes view of u1 over two stored route points, after the time of the stored route;
\* the user clicks, waits, and clicks again
InitRuns ==
    /\ \E kinds \in [1 .. 2 -> PointKinds] :
          Loaded([StoredDb EXCEPT !.routePoints = storedPoints(kinds)], "routes")
    /\ tasks = <<>>
    /\ dialog = dialog0
    /\ now = 1
    /\ out = NoOut
    /\ budget = MaxOps + 1

NextRuns ==
    \/ \E k \in {0, RandSteps - 1} : ClickOptimize(k)
    \/ Tick
    \/ \E i \in DOMAIN tasks : BackendProcess(i, FALSE)
    \/ \E i \in DOMAIN tasks : Deliver(i)

SpecRuns == InitRuns /\ [][NextRuns]_vars

\* the routes stored since the start
AddedRoutes == SubSeq(db.optimizedRoutes, Len(storedRoutes) + 1, Len(db.optimizedRoutes))

\* the times of the runs that stored their routes
RunTimes ==
    {t \in 0 .. MaxTime :
        \E j \in DOMAIN AddedRoutes :
            AddedRoutes[j].id = "route-" \o ToString(t) \o "-" \o AddedRoutes[j].equipmentId}

EligiblePoints == OfType(route.routePoints, "loading") # <<>> /\ OfType(route.routePoints, "dumping") # <<>>

EligibleDumpers == IF EligiblePoints THEN Len(activeDumpers(app.equipment)) ELSE 0

RunsAddTheirRoutes == tasks = <<>> => Len(AddedRoutes) = Cardinality(RunTimes) * EligibleDumpers

AddedHoldBestPoints ==
    \A j \in DOMAIN AddedRoutes :
        AddedRoutes[j].points = Stringify(<< FirstWithMostFree(OfType(route.routePoints, "loading")),
                                            FirstWithMostFree(OfType(route.routePoints, "dumping")) >>)

EarlierRoutesKept ==
    /\ Len(db.optimizedRoutes) <= Len(db'.optimizedRoutes)
    /\ SubSeq(db'.optimizedRoutes, 1, Len(db.optimizedRoutes)) = db.optimizedRoutes

\* C11: a run of optimizeRoutes stores one new route for each eligible dumper, holding a copy of
\* the best points of the current routePoints, and leaves the routes stored before as they are:
\* once n runs have succeeded there are n * k routes more than at the start
RunsOnlyAddRoutes == [](RunsAddTheirRoutes /\ AddedHoldBestPoints) /\ [][EarlierRoutesKept]_vars

TwoRunsStored == tasks = <<>> /\ EligibleDumpers = 3 /\ Len(AddedRoutes) = 6

----------------------------------------------------------------------------
(* C12: updateEquipmentStatus when the log cannot be written *)

\* task i is still in flight after a step of its own (a handler never starts its own kind)
Kept(i) ==
    /\ Len(tasks') >= Len(tasks)
    /\ tasks'[i] # tasks[i]
    /\ tasks'[i].stack[1].fn = tasks[i].stack[1].fn
    /\ SubSeq(tasks', 1, Len(tasks)) = [tasks EXCEPT ![i] = tasks'[i]]

\* task i has ended
Ended(i) ==
    /\ Len(tasks') >= Len(tasks) - 1
    /\ SubSeq(tasks', 1, Len(tasks) - 1) = Remove(tasks, i)
    /\ \A j \in DOMAIN tasks : ~Kept(j)

\* task i has run on the answer it was waiting for
Stepped(i) == Top(tasks[i]).resp.state = "done" /\ budget' = budget /\ (Kept(i) \/ Ended(i))

\* the equipment update of task i has resolved and its equipmentLogs.create has rejected
LogRejected(i) ==
    /\ Top(tasks[i]).fn = "updateEquipmentStatus"
    /\ Top(tasks[i]).pc = "log"
    /\ Top(tasks[i]).resp.state = "done"
    /\ ~Top(tasks[i]).resp.ok

NoRecovery(i) ==
    /\ tasks' = Remove(tasks, i)
    /\ db' = db
    /\ out'.reqs = <<>>
    /\ app'.equipment = app.equipment
    /\ out'.toasts = << [kind |-> "error", msg |-> "Failed to update equipment status"] >>

\* C12: when the equipment update of updateEquipmentStatus has succeeded and equipmentLogs.create
\* rejects, the handler ends there: it writes nothing back, sends no request (no reload, no retry),
\* leaves the displayed list as it was and shows the error toast
LogFailureNotRecovered ==
    [][\A i \in DOMAIN tasks : LogRejected(i) /\ Stepped(i) => NoRecovery(i)]_vars

StatusOf(list, id) == {list[j].status : j \in {n \in DOMAIN list : list[n].id = id}}

\* the log was rejected: the stored status is the new one and the list shows the old one
StoredChangedListStale ==
    /\ out.rejectedIn = "updateEquipmentStatus"
    /\ tasks = <<>>
    /\ \E id \in Targets : StatusOf(db.equipment, id) # StatusOf(app.equipment, id)

----------------------------------------------------------------------------
(* C13: overlapping loads of the equipment list *)

\* the dispatch view of u1; the backend answers every call, in any order
InitLoads == Loaded(StoredDb, "dispatch") /\ Idle

NextLoads ==
    \/ ClickRefresh
    \/ \E item \in Shown(app.equipment) : ClickCardToggle(item)
    \/ \E i \in DOMAIN tasks : BackendProcess(i, FALSE)
    \/ \E i \in DOMAIN tasks : Deliver(i)

SpecLoads == InitLoads /\ [][NextLoads]_vars

StoredEquipmentOf(user) ==
    Map(DbList(db, [coll |-> "equipment", where |-> [userId |-> user],
                    orderBy |-> [key |-> "type", dir |-> "asc", kind |-> "str"]]),
        EquipmentOfItem)

\* C13: once no operation is in flight, the equipment list of App is the stored equipment of the
\* user, whatever the order in which the answers of overlapping loads arrived
ListIsStoredWhenIdle == tasks = <<>> => app.equipment = StoredEquipmentOf(app.user)

----------------------------------------------------------------------------
(* C14: seeding of the sample equipment *)

\* task i has called equipment.createMany with the sample equipment
Seeding(i) == Top(tasks[i]).fn = "initializeSampleData" /\ Top(tasks[i]).pc = "createMany"

EquipmentStoredFor(user) == SelectSeq(db.equipment, LAMBDA item : item.userId = user) # <<>>

\* C14: the sample equipment is written by one createMany for a user: a createMany is never
\* sent when the user has equipment stored, nor while another createMany for the user is in flight
SeededAtMostOnce ==
    \A i \in DOMAIN tasks :
        Seeding(i) /\ Top(tasks[i]).resp = Pending =>
            /\ ~EquipmentStoredFor(tasks[i].u)
            /\ \A j \in DOMAIN tasks \ {i} : ~(Seeding(j) /\ tasks[j].u = tasks[i].u)

----------------------------------------------------------------------------
(* C15: the status of a completed maintenance task *)

TaskIds == {db.maintenanceTasks[j].id : j \in DOMAIN db.maintenanceTasks}

\* C15: a maintenance task whose stored status is completed keeps that status in every step,
\* also when the click came from a card that was rendered before the update was stored
CompletedIsTerminal ==
    [][\A id \in TaskIds : StatusOf(db.maintenanceTasks, id) = {"completed"}
                              => StatusOf(db'.maintenanceTasks, id) = {"completed"}]_vars

----------------------------------------------------------------------------
(* C16: equipment in maintenance and the pause/play toggle *)

\* the dispatch view of u1 once the user has selected a card
InitPanel ==
    /\ db = StoredDb
    /\ \E item \in Shown(loadedApp(db, "u1", "dispatch").equipment) :
          app = [loadedApp(db, "u1", "dispatch") EXCEPT !.selectedEquipment = <<item>>]
    /\ maint = maint0
    /\ route = route0
    /\ auth = "u1"
    /\ timers = {1}
    /\ Idle

NextPanel ==
    \/ \E item \in Shown(app.equipment) : SelectEquipment(item)
    \/ \E item \in Shown(app.equipment) : ClickCardToggle(item)
    \/ ClickPanelToggle
    \/ ClickSendToMaintenance
    \/ \E i \in DOMAIN tasks : BackendProcess(i, FALSE)
    \/ \E i \in DOMAIN tasks : Deliver(i)

SpecPanel == InitPanel /\ [][NextPanel]_vars

EquipmentIds == {db.equipment[j].id : j \in DOMAIN db.equipment}

\* the backend has run the equipment update that updateTaskStatus sends for a completed task
CompletedTaskUpdates(id) ==
    \E i \in DOMAIN tasks :
        /\ Top(tasks[i]).fn = "updateTaskStatus"
        /\ Top(tasks[i]).pc = "equipment"
        /\ Top(tasks[i]).req.id = id
        /\ Top(tasks[i]).resp = Pending
        /\ Len(tasks') = Len(tasks)
        /\ Kept(i)

\* C16: equipment whose stored status is maintenance keeps it in every step, but the one in which
\* the equipment update of a completed maintenance task is stored; no toggle of a card or of the
\* details panel sets it to active or idle
MaintenanceLeftOnlyByTask ==
    [][\A id \in EquipmentIds :
          StatusOf(db.equipment, id) = {"maintenance"} /\ StatusOf(db'.equipment, id) # {"maintenance"}
              => CompletedTaskUpdates(id)]_vars

----------------------------------------------------------------------------
(* C17: the steps of updateTaskStatus(taskId, completed) *)

Completing(f) == f.fn = "updateTaskStatus" /\ f.a.status = "completed"

\* the backend has answered the request task i was waiting on
Answered(i) == Top(tasks[i]).resp = Pending /\ Len(tasks') = Len(tasks) /\ Kept(i)

\* task i has run on its answer
Ran(i) == Top(tasks[i]).resp.state = "done" /\ Stepped(i)

Record(list, id) == SelectSeq(list, LAMBDA rec : rec.id = id)

EquipmentOfTask(a) == FindById(a.maintenanceTasks, a.taskId)[1].equipmentId

\* the maintenanceTasks.update of f is answered, or its answer is delivered
AtUpdate(i, f) ==
    /\ Answered(i) /\ Top(tasks'[i]).resp.ok =>
          /\ Record(db'.maintenanceTasks, f.a.taskId)[1].status = "completed"
          /\ Has(f.req.patch, "completedDate")
          /\ Record(db'.maintenanceTasks, f.a.taskId)[1].completedDate = f.req.patch.completedDate
    /\ Ran(i) /\ f.resp.ok =>
          /\ Len(tasks') >= Len(tasks)
          /\ Len(tasks'[i].stack) = 2
          /\ tasks'[i].stack[1].pc = "loaded"
          /\ tasks'[i].stack[2].fn = "loadMaintenanceTasks"
          /\ Len(out'.reqs) = 1
          /\ out'.reqs[1].by = "loadMaintenanceTasks"
    /\ Ran(i) /\ ~f.resp.ok => tasks' = Remove(tasks, i) /\ out'.toasts # <<>> /\ out'.toasts[1].kind = "error"

\* loadMaintenanceTasks runs for f; when it returns, f sends the equipment update
AtReload(i, f) ==
    /\ Len(tasks[i].stack) = 2
    /\ Top(tasks[i]).fn = "loadMaintenanceTasks"
    /\ Ran(i) =>
          /\ Len(tasks') >= Len(tasks)
          /\ \/ tasks'[i].stack[1] = f /\ Len(tasks'[i].stack) = 2
             \/ /\ Len(tasks'[i].stack) = 1
                /\ tasks'[i].stack[1].pc = "equipment"
                /\ tasks'[i].stack[1].req =
                      [coll |-> "equipment", op |-> "update", id |-> EquipmentOfTask(f.a),
                       patch |-> [status |-> "idle", lastMaintenance |-> now, updatedAt |-> now]]

\* the equipment update of f is answered, or its answer is delivered
AtEquipment(i, f) ==
    /\ Answered(i) /\ Top(tasks'[i]).resp.ok =>
          /\ Record(db'.equipment, EquipmentOfTask(f.a))[1].status = "idle"
          /\ Record(db'.equipment, EquipmentOfTask(f.a))[1].lastMaintenance = f.req.patch.lastMaintenance
    /\ Ran(i) =>
          /\ tasks' = Remove(tasks, i) \o SubSeq(tasks', Len(tasks), Len(tasks'))
          /\ IF f.resp.ok
             THEN /\ out'.toasts = << [kind |-> "success", msg |-> "Task marked as completed"] >>
                  /\ Len(out'.reqs) = 1
                  /\ out'.reqs[1].by = "loadEquipment"
                  /\ out'.reqs[1].op = "list"
             ELSE /\ out'.toasts = << [kind |-> "error", msg |-> "Failed to update task status"] >>
                  /\ out'.reqs = <<>>

CompletionStep(i, f) ==
    CASE f.pc = "update" -> AtUpdate(i, f)
      [] f.pc = "loaded" -> AtReload(i, f)
      [] f.pc = "equipment" -> AtEquipment(i, f)

CompletedWithNotes == \A i \in DOMAIN tasks : Completing(tasks[i].stack[1]) => Trim(tasks[i].stack[1].a.notes) # ""

\* C17: updateTaskStatus(taskId, completed) is started by a card only with non-blank notes, and it
\* goes through these steps, in this order, ending with the success toast only after the last:
\* the task is stored completed with a completedDate, loadMaintenanceTasks runs, the equipment
\* of the task is stored idle with a new lastMaintenance, and loadEquipment is called
CompletionInOrder ==
    /\ []CompletedWithNotes
    /\ [][\A i \in DOMAIN tasks : Completing(tasks[i].stack[1]) => CompletionStep(i, tasks[i].stack[1])]_vars

\* a completion has just ended with its success toast, and the reload of the equipment is in flight
CompletionDone ==
    /\ out.toasts = << [kind |-> "success", msg |-> "Task marked as completed"] >>
    /\ \E i \in DOMAIN tasks : tasks[i].stack[1].fn = "loadEquipment" /\ tasks[i].origin = "button"
    /\ \E id \in {"exc-003", "dum-004"} : Record(db.equipment, id)[1].status = "idle"

----------------------------------------------------------------------------
(* C18: the assignments list after createAssignment *)

CreatedAssignments == SelectSeq(db.assignments, LAMBDA rec : rec.id \notin Ids(storedAssignments))

\* C18: every assignment in the list of App is stored with status active, and no assignment that
\* createAssignment has stored is in the list, before or after the reload that follows it
CreatedNeverListed ==
    /\ \A j \in DOMAIN app.assignments : StatusOf(db.assignments, app.assignments[j].id) = {"active"}
    /\ Ids(CreatedAssignments) \cap Ids(app.assignments) = {}

\* createAssignment has ended after its reload was answered
ReloadedAfterCreate ==
    /\ out.toasts = << [kind |-> "success", msg |-> "Assignment created successfully"] >>
    /\ out.rejectedIn = "none"
    /\ CreatedAssignments # <<>>
    /\ Len(app.assignments) = Len(storedAssignments)

----------------------------------------------------------------------------
(* C19: createAssignment and its dialog *)

\* the dispatch view of u1 with the create-assignment dialog open
InitDialog ==
    /\ db = StoredDb
    /\ app = [loadedApp(db, "u1", "dispatch") EXCEPT !.isCreateAssignmentOpen = TRUE]
    /\ maint = maint0
    /\ route = route0
    /\ auth = "u1"
    /\ timers = {1}
    /\ Idle

NextDialog ==
    \/ \E formData \in AssignmentForms(app.equipment) : SubmitAssignment(formData)
    \/ \E open \in BOOLEAN : setIsCreateAssignmentOpen(open)
    \/ \E i \in DOMAIN tasks, fails \in BOOLEAN : BackendProcess(i, fails)
    \/ \E i \in DOMAIN tasks : Deliver(i)
    \/ Tick

SpecDialog == InitDialog /\ [][NextDialog]_vars

\* assignments.create has rejected: the handler ends in its catch block
CreateRejected(i) ==
    /\ Ended(i)
    /\ out'.toasts = << [kind |-> "error", msg |-> "Failed to create assignment"] >>
    /\ out'.reqs = <<>>
    /\ app'.assignments = app.assignments
    /\ app'.isCreateAssignmentOpen = app.isCreateAssignmentOpen

\* assignments.create has resolved: the handler reloads the list
CreateResolved(i) ==
    /\ Kept(i)
    /\ Len(tasks'[i].stack) = 2
    /\ tasks'[i].stack[1].pc = "loaded"
    /\ tasks'[i].stack[2].fn = "loadAssignments"
    /\ Len(out'.reqs) = 1
    /\ out'.reqs[1].by = "loadAssignments"
    /\ out'.toasts = <<>>

\* the reload has been answered or has rejected: the handler closes the dialog and ends
ReloadReturned(i) ==
    /\ Ended(i)
    /\ out'.toasts = << [kind |-> "success", msg |-> "Assignment created successfully"] >>
    /\ ~app'.isCreateAssignmentOpen
    /\ Top(tasks[i]).resp.ok \/ app'.assignments = app.assignments

CreateAssignmentStep(i, f) ==
    CASE f.pc = "create" -> IF f.resp.ok THEN CreateResolved(i) ELSE CreateRejected(i)
      [] f.pc = "loaded" -> ReloadReturned(i)

\* C19: a rejected assignments.create ends createAssignment with the error toast, no reload, the
\* list and the dialog as they were; a resolved one is followed by the reload, after which the
\* dialog is closed and the success toast is shown, whether the reload was answered or rejected
DialogClosedOnlyOnCreate ==
    [][\A i \in DOMAIN tasks :
          tasks[i].stack[1].fn = "createAssignment" /\ Stepped(i) => CreateAssignmentStep(i, tasks[i].stack[1])]_vars

\* the reload after a create has rejected: the dialog is closed under the success toast
ClosedThoughReloadFailed ==
    /\ out.rejectedIn = "loadAssignments"
    /\ out.toasts = << [kind |-> "success", msg |-> "Assignment created successfully"] >>
    /\ ~app.isCreateAssignmentOpen
    /\ Ids(CreatedAssignments) # {}

----------------------------------------------------------------------------
(* C20: the lists of App and the signed-in user *)

\* every record of list is stored in coll for user
FetchedFor(list, coll, user) ==
    \A j \in DOMAIN list : \E n \in DOMAIN db[coll] : db[coll][n].id = list[j].id /\ db[coll][n].userId = user

\* C20: whenever the views are rendered for a signed-in user, the equipment and the assignments
\* App holds are records of that user, and no list request is sent for no user
ListsBelongToUser ==
    /\ Visible(app) => FetchedFor(app.equipment, "equipment", app.user)
                       /\ FetchedFor(app.assignments, "assignments", app.user)
    /\ \A i \in DOMAIN out.reqs : out.reqs[i].op = "list" => out.reqs[i].where.userId # NoUser

----------------------------------------------------------------------------
(* C21: productionMetrics under the timer *)

MaxTicks == 56

\* the interval fires again and again while the dispatch view of u1 stays as it is
TimerFires(h, k) ==
    /\ h \in timers
    /\ now < MaxTicks
    /\ now' = now + 1
    /\ Commit(updateProductionMetrics(Cur, k), tasks)
    /\ UNCHANGED <<db, auth, budget>>

InitMetrics ==
    /\ Loaded(StoredDb, "dispatch")
    /\ tasks = <<>>
    /\ dialog = dialog0
    /\ now = 0
    /\ out = NoOut
    /\ budget = 0

NextMetrics == \E h \in timers, k \in MetricDraws : TimerFires(h, k)

SpecMetrics == InitMetrics /\ [][NextMetrics]_vars

Percentage(v) == 0 <= v /\ v <= 100 * Unit

\* C21: after any number of timer ticks targetPercentage and equipmentUtilization are within
\* 0..100, and dailyTotal is not below its first value
MetricsStayInRange ==
    /\ Percentage(app.productionMetrics.targetPercentage)
    /\ Percentage(app.productionMetrics.equipmentUtilization)
    /\ app.productionMetrics.dailyTotal >= app0.productionMetrics.dailyTotal

----------------------------------------------------------------------------
(* C22: the routes of one run of optimizeRoutes *)

DumpersNotInMaintenance(equipment) ==
    {equipment[j].id : j \in {n \in DOMAIN equipment :
                                 equipment[n].type = "dumper" /\ equipment[n].status # "maintenance"}}

\* the stored routes of the run of frame f
RunRecords(f) == SelectSeq(db.optimizedRoutes, LAMBDA rec : rec.id \in Ids(f.a.optimizedRoutes))

\* every create of the run has been answered
RunStored(f) == IsRun(f) /\ f.pc = "loaded"

PlannedBetweenBest(rec, routePoints) ==
    /\ rec.status = "planned"
    /\ rec.priority = "medium"
    /\ rec.points = Stringify(<< FirstWithMostFree(OfType(routePoints, "loading")),
                                FirstWithMostFree(OfType(routePoints, "dumping")) >>)

OneRouteForEachDumper(f) ==
    /\ \A d \in DumpersNotInMaintenance(f.a.equipment) :
          Len(SelectSeq(RunRecords(f), LAMBDA rec : rec.equipmentId = d)) = 1
    /\ \A j \in DOMAIN RunRecords(f) :
          /\ RunRecords(f)[j].equipmentId \in DumpersNotInMaintenance(f.a.equipment)
          /\ PlannedBetweenBest(RunRecords(f)[j], f.a.routePoints)

HasBothKinds(routePoints) == OfType(routePoints, "loading") # <<>> /\ OfType(routePoints, "dumping") # <<>>

----------------------------------------------------------------------------
(* C23: isOptimizing and the runs in flight *)

\* the routes view of u1; the user optimizes, leaves the view and comes back
InitOptimizing ==
    /\ Loaded(StoredDb, "routes")
    /\ tasks = <<>>
    /\ dialog = dialog0
    /\ now = 1
    /\ out = NoOut
    /\ budget = MaxOps + 2

NextOptimizing ==
    \/ ClickOptimize(0)
    \/ \E view \in {"dispatch", "routes"} : setActiveView(view)
    \/ \E i \in DOMAIN tasks : BackendProcess(i, FALSE)
    \/ \E i \in DOMAIN tasks : Deliver(i)

SpecOptimizing == InitOptimizing /\ [][NextOptimizing]_vars

RunsInFlight == {i \in DOMAIN tasks : tasks[i].stack[1].fn = "optimizeRoutes"}

\* C23: while RouteOptimizer is shown, isOptimizing is true exactly when a run of optimizeRoutes
\* is in flight, and there is never more than one run in flight
OptimizingWhileRunInFlight ==
    /\ Shows(app, "routes") => (route.isOptimizing <=> RunsInFlight # {})
    /\ Cardinality(RunsInFlight) <= 1

TwoRunsInFlight == Cardinality(RunsInFlight) = 2

----------------------------------------------------------------------------
(* C24: the success toast of optimizeRoutes *)

OptimizeSucceeded == [kind |-> "success", msg |-> "Optimized routes for vehicles"] \in {out.toasts[j] : j \in DOMAIN out.toasts}

\* C24: a run of optimizeRoutes that comes to its reload has stored at least one route, and when
\* it shows its success toast the efficiencyGain it has set is a number
SuccessMeansRoutes ==
    /\ \A i \in DOMAIN tasks : RunStored(tasks[i].stack[1]) => RunRecords(tasks[i].stack[1]) # <<>>
    /\ OptimizeSucceeded => ~route.optimizationMetrics.efficiencyGain.nan

----------------------------------------------------------------------------
(* C25: the metrics of a manual route and of a generated route *)

\* coordinates and wait times of the two stored route points; <<>> is a missing waitTime
Coords == {0, 5, 14, 30}
Waits == {<<>>, <<3>>}

\* a loading and a dumping point, with the ids the form offers
pairOfPoints(a, b, w1, w2) ==
    << Spread([id |-> "point-1", name |-> Alphabetical[1], type |-> "loading", coordinates |-> Stringify(a),
               capacity |-> 5, userId |-> "u1", createdAt |-> 0], Optional("waitTime", w1)),
       Spread([id |-> "point-4", name |-> Alphabetical[2], type |-> "dumping", coordinates |-> Stringify(b),
               capacity |-> 5, userId |-> "u1", createdAt |-> 0], Optional("waitTime", w2)) >>

\* the routes view of u1 with the dialog open, over two stored points
InitDistance ==
    /\ \E x \in {0, 5}, y \in Coords, w1 \in Waits, w2 \in Waits :
          db = [StoredDb EXCEPT !.routePoints = pairOfPoints([x |-> x, y |-> 0], [x |-> y, y |-> x + y], w1, w2)]
    /\ app = loadedApp(db, "u1", "routes")
    /\ maint = maint0
    /\ route = [loadedRoute(db, "u1") EXCEPT !.isCreateRouteOpen = TRUE]
    /\ auth = "u1"
    /\ timers = {1}
    /\ IdleOnce

NextDistance ==
    \/ ClickOptimize(0)
    \/ \E formData \in RouteForms(app.equipment, route.routePoints) : SubmitRoute(formData, 0)
    \/ \E i \in DOMAIN tasks : BackendProcess(i, FALSE)
    \/ \E i \in DOMAIN tasks : Deliver(i)

SpecDistance == InitDistance /\ [][NextDistance]_vars

SquaredLength(p, q) ==
    (q.coordinates.x - p.coordinates.x) * (q.coordinates.x - p.coordinates.x)
        + (q.coordinates.y - p.coordinates.y) * (q.coordinates.y - p.coordinates.y)

\* n = round(v / d) for d > 0
IsRounded(n, v, d) == 2 * d * n - d <= 2 * v /\ 2 * v < 2 * d * n + d

\* n = round(sqrt(q) / 10)
IsRoundedRoot(n, q) == (n = 0 \/ (10 * n - 5) * (10 * n - 5) <= q) /\ q < (10 * n + 5) * (10 * n + 5)

NoDumper == [id |-> "", name |-> ""]

\* rec has the metrics generateOptimizedRoute computes for the pair <<p, q>>, which are the rounded values
MetricsAgree(rec, p, q) ==
    /\ rec.totalDistance = routeBetween(NoDumper, p, q, 0, 0).totalDistance
    /\ rec.estimatedTime = routeBetween(NoDumper, p, q, 0, 0).estimatedTime
    /\ rec.fuelConsumption = routeBetween(NoDumper, p, q, 0, 0).fuelConsumption
    /\ IsRoundedRoot(rec.totalDistance, SquaredLength(p, q))
    /\ IsRounded(rec.estimatedTime, rec.totalDistance + 25 * (OrZero(p, "waitTime") + OrZero(q, "waitTime")), 25)
    /\ IsRounded(rec.fuelConsumption, 3 * rec.totalDistance, 10)
    /\ calculateDistance(p.coordinates, q.coordinates) = calculateDistance(q.coordinates, p.coordinates)
    /\ p = q => rec.totalDistance = 0

ManualRoutesSent == SelectSeq(RoutesSent, LAMBDA req : req.by = "CreateRouteDialog")

\* C25: the route the manual dialog creates for a pair of points has the totalDistance,
\* estimatedTime and fuelConsumption generateOptimizedRoute computes for that pair, which are
\* round(sqrt(dx^2 + dy^2) / 10), round(distance / 25 + both wait times) and round(distance * 0.3);
\* the distance is the same in both directions and 0 from a point to itself
ManualMetricsAsGenerated ==
    \A i \in DOMAIN ManualRoutesSent :
        MetricsAgree(ManualRoutesSent[i].rec, Parse(ManualRoutesSent[i].rec.points)[1],
                     Parse(ManualRoutesSent[i].rec.points)[2])

\* a manual route between two different points, one with a wait time, whose distance rounds up
ManualRouteRoundedUp ==
    \E i \in DOMAIN ManualRoutesSent :
        /\ Parse(ManualRoutesSent[i].rec.points)[1] # Parse(ManualRoutesSent[i].rec.points)[2]
        /\ Has(Parse(ManualRoutesSent[i].rec.points)[2], "waitTime")
        /\ ManualRoutesSent[i].rec.totalDistance * ManualRoutesSent[i].rec.totalDistance * 100
               > SquaredLength(Parse(ManualRoutesSent[i].rec.points)[1], Parse(ManualRoutesSent[i].rec.points)[2])

----------------------------------------------------------------------------
(* C26: what activating a route changes *)

\* the routes view of u1, where routes are generated, created by hand and activated
InitActivate ==
    /\ Loaded(StoredDb, "routes")
    /\ tasks = <<>>
    /\ dialog = dialog0
    /\ now = 1
    /\ out = NoOut
    /\ budget = MaxOps + 1

NextActivate ==
    \/ ClickOptimize(0)
    \/ \E i \in DOMAIN route.routes : ClickActivate(route.routes[i])
    \/ Tick
    \/ \E i \in DOMAIN tasks, fails \in BOOLEAN : BackendProcess(i, fails)
    \/ \E i \in DOMAIN tasks : Deliver(i)

SpecActivate == InitActivate /\ [][NextActivate]_vars

StoredRouteIds == {db.optimizedRoutes[i].id : i \in DOMAIN db.optimizedRoutes}

\* the step answers the update of activateRoute(id)
ActivateAnswered(id) ==
    \E i \in DOMAIN tasks :
        /\ Top(tasks[i]).fn = "activateRoute"
        /\ Top(tasks[i]).req = activateRouteRequest(id, Top(tasks[i]).req.patch.updatedAt)
        /\ Answered(i)

\* r2 is r but for the fields in names
SameBut(r, r2, names) ==
    /\ DOMAIN r \subseteq DOMAIN r2
    /\ DOMAIN r2 \subseteq DOMAIN r \cup names
    /\ \A k \in DOMAIN r \ names : r2[k] = r[k]

\* the step starts activateRoute(id) from the button
ActivateClicked(id) ==
    /\ budget' = budget - 1
    /\ Len(tasks') = Len(tasks) + 1
    /\ tasks'[Len(tasks')].stack[1].fn = "activateRoute"
    /\ tasks'[Len(tasks')].stack[1].a.routeId = id

\* what a step does to the stored route id, with the fields an activation may write
RouteStep(id, written) ==
    /\ Record(db.optimizedRoutes, id) # <<>> => Record(db.optimizedRoutes', id) # <<>>
    /\ Record(db.optimizedRoutes, id) = <<>> /\ Record(db.optimizedRoutes', id) # <<>> =>
          Record(db.optimizedRoutes', id)[1].status = "planned"
    /\ Record(db.optimizedRoutes', id) # <<>> => Record(db.optimizedRoutes', id)[1].status \in {"planned", "active"}
    /\ Record(db.optimizedRoutes, id) # <<>> /\ Record(db.optimizedRoutes', id) # Record(db.optimizedRoutes, id) =>
          /\ ActivateAnswered(id)
          /\ Record(db.optimizedRoutes', id)[1].status = "active"
          /\ SameBut(Record(db.optimizedRoutes, id)[1], Record(db.optimizedRoutes', id)[1], written)
          /\ \A other \in StoredRouteIds \ {id} : Record(db.optimizedRoutes', other) = Record(db.optimizedRoutes, other)
    /\ Record(db.optimizedRoutes, id) # <<>> /\ Record(db.optimizedRoutes, id)[1].status = "active" =>
          Record(db.optimizedRoutes', id)[1].status = "active"
    /\ ActivateClicked(id) => Record(route.routes, id) # <<>> /\ Record(route.routes, id)[1].status = "planned"

\* C26: the update of activateRoute(routeId) sets the status of that one stored route to active
\* and writes its updatedAt, and changes no other field and no other route; a route is stored
\* with status planned, activateRoute is started only for a route shown as planned, and no step
\* makes a route completed, or planned again
ActivationWritesStatusAndDate ==
    [][\A id \in StoredRouteIds \cup StoredRouteIds' : RouteStep(id, {"status", "updatedAt"})]_vars

\* C26 as the specification states it: the status is the only field of the route that changes
ActivationWritesStatusOnly ==
    [][\A id \in StoredRouteIds \cup StoredRouteIds' : RouteStep(id, {"status"})]_vars

\* two of the generated routes are active and the third is planned
TwoActivated ==
    /\ \E i, j \in DOMAIN db.optimizedRoutes :
          i # j /\ db.optimizedRoutes[i].status = "active" /\ db.optimizedRoutes[j].status = "active"
    /\ \E i \in DOMAIN db.optimizedRoutes : db.optimizedRoutes[i].status = "planned"

----------------------------------------------------------------------------
(* C27: the four summary cards of the maintenance view *)

\* maintenanceTasks.filter(t => t.status === 'completed') of the Completed card
completedTasks(maintenanceTasks) == SelectSeq(maintenanceTasks, LAMBDA task : task.status = "completed")

\* [...overdueTasks, ...inProgressTasks] of the Urgent list
urgentTasks(maintenanceTasks, t) == overdueTasks(maintenanceTasks, t) \o inProgressTasks(maintenanceTasks)

Listed(list, task) == \E j \in DOMAIN list : list[j] = task

\* the cards Overdue, In Progress, This Week and Completed that count the task
CardsCounting(task) ==
    {card \in 1 .. 4 :
        \/ card = 1 /\ Listed(overdueTasks(maint.maintenanceTasks, now), task)
        \/ card = 2 /\ Listed(inProgressTasks(maint.maintenanceTasks), task)
        \/ card = 3 /\ Listed(upcomingTasks(maint.maintenanceTasks, now), task)
        \/ card = 4 /\ Listed(completedTasks(maint.maintenanceTasks), task)}

\* C27: no task of the list is counted by two of the four summary cards, and none is shown in
\* both the Urgent and the Upcoming list
SummaryCardsDisjoint ==
    \A i \in DOMAIN maint.maintenanceTasks :
        /\ Cardinality(CardsCounting(maint.maintenanceTasks[i])) <= 1
        /\ ~(/\ Listed(urgentTasks(maint.maintenanceTasks, now), maint.maintenanceTasks[i])
             /\ Listed(upcomingTasks(maint.maintenanceTasks, now), maint.maintenanceTasks[i]))

----------------------------------------------------------------------------
(* C28: the calls of one loadEquipment *)

\* nobody is signed in, over an empty store or the store of u1; users sign in and refresh
InitSeed ==
    /\ db \in {EmptyDb, StoredDb}
    /\ Boot
    /\ tasks = <<>>
    /\ dialog = dialog0
    /\ now = 0
    /\ out = NoOut
    /\ budget = MaxOps

NextSeed ==
    \/ \E u \in Users : AuthStateChanged([user |-> u, isLoading |-> FALSE], FALSE)
    \/ ClickRefresh
    \/ \E i \in DOMAIN tasks, fails \in BOOLEAN : BackendProcess(i, fails)
    \/ \E i \in DOMAIN tasks : Deliver(i)

\* the backend settles every request and every continuation of a settled request runs
SpecSeed ==
    /\ InitSeed
    /\ [][NextSeed]_vars
    /\ WF_vars(\E i \in DOMAIN tasks : BackendProcess(i, FALSE))
    /\ WF_vars(\E i \in DOMAIN tasks : Deliver(i))

IsLoadEquipment(task) == task.stack[1].fn = "loadEquipment"

Fns(stack) == [j \in DOMAIN stack |-> stack[j].fn]
Pcs(stack) == [j \in DOMAIN stack |-> stack[j].pc]

\* the calls a loadEquipment has made when it waits: its list, then the createMany of
\* initializeSampleData, then the list of the loadEquipment that initializeSampleData calls
CallsMade(task) ==
    CASE Fns(task.stack) = <<"loadEquipment">> /\ Pcs(task.stack) = <<"list">> -> 1
      [] Fns(task.stack) = <<"loadEquipment", "initializeSampleData">>
           /\ Pcs(task.stack) = <<"initialized", "createMany">> -> 2
      [] Fns(task.stack) = <<"loadEquipment", "initializeSampleData", "loadEquipment">>
           /\ Pcs(task.stack) = <<"initialized", "loaded", "list">> -> 3
      [] OTHER -> 0

\* a waiting loadEquipment is at one of its three calls
AtOneOfThreeCalls == \A i \in DOMAIN tasks : IsLoadEquipment(tasks[i]) => CallsMade(tasks[i]) \in 1 .. 3

\* a continuation of loadEquipment makes the next call (never an earlier one again) or ends the
\* call, and after a rejected createMany it ends the call and sends nothing
NextCallOrEnd(i) ==
    /\ Kept(i) => CallsMade(tasks'[i]) = CallsMade(tasks[i]) + 1
    /\ Top(tasks[i]).fn = "initializeSampleData" /\ ~Top(tasks[i]).resp.ok =>
          Ended(i) /\ out'.reqs = <<>>

\* C28: every call of loadEquipment ends, having made at most its list, one createMany and one
\* more list, in this order, and none after a createMany that was rejected
LoadEquipmentEnds ==
    /\ []AtOneOfThreeCalls
    /\ [][\A i \in DOMAIN tasks : IsLoadEquipment(tasks[i]) /\ Ran(i) => NextCallOrEnd(i)]_vars
    /\ <>[](tasks = <<>>)

\* the second list of a loadEquipment has returned the records its createMany stored
ListedAfterSeeding ==
    \E i \in DOMAIN tasks :
        /\ IsLoadEquipment(tasks[i])
        /\ CallsMade(tasks[i]) = 3
        /\ Top(tasks[i]).resp.state = "done"
        /\ Top(tasks[i]).resp.ok
        /\ Len(Top(tasks[i]).resp.data) = Len(sampleEquipment)

----------------------------------------------------------------------------
(* C29: the equipment metrics of the analytics view and the fleet counts *)

MaxFleet == 4

\* a percentage as a quotient: (part / total) * 100, and 0
Percent(part, total) == [num |-> 100 * part, den |-> total]
ZeroPercent == [num |-> 0, den |-> 1]

\* an availability that counts the equipment in maintenance
calculateAnalyticsOfMaintenance(equipment) ==
    [utilization |-> IF Len(equipment) > 0
                     THEN Percent(Count(equipment, LAMBDA eq : eq.status = "active"), Len(equipment))
                     ELSE ZeroPercent,
     availability |-> IF Len(equipment) > 0
                      THEN Percent(Count(equipment, LAMBDA eq : eq.status = "maintenance"), Len(equipment))
                      ELSE ZeroPercent]

\* utilization and availability of the equipmentMetrics of calculateAnalytics
calculateAnalytics(equipment) ==
    [utilization |-> IF Len(equipment) > 0
                     THEN Percent(Count(equipment, LAMBDA eq : eq.status = "active"), Len(equipment))
                     ELSE ZeroPercent,
     availability |-> IF Len(equipment) > 0
                      THEN Percent(Len(equipment) - Count(equipment, LAMBDA eq : eq.status = "maintenance"),
                                   Len(equipment))
                      ELSE ZeroPercent]

\* the first n pieces of the sample fleet, stored for u1 with the given statuses
storedFleet(statuses) ==
    [i \in DOMAIN statuses |->
        Spread([sampleEquipment[i] EXCEPT !.status = statuses[i]], [userId |-> "u1", createdAt |-> 0])]

\* the dispatch view of u1 over a stored fleet of 0 to MaxFleet pieces in any statuses
InitFleet ==
    /\ \E n \in 0 .. MaxFleet : \E statuses \in [1 .. n -> {"active", "idle", "maintenance"}] :
          Loaded([StoredDb EXCEPT !.equipment = storedFleet(statuses)], "dispatch")
    /\ IdleOnce

NextFleet ==
    \/ ClickRefresh
    \/ \E item \in Shown(app.equipment) : ClickCardToggle(item)
    \/ \E i \in DOMAIN tasks : BackendProcess(i, FALSE)
    \/ \E i \in DOMAIN tasks : Deliver(i)

SpecFleet == InitFleet /\ [][NextFleet]_vars

InPercentRange(p) == p.den > 0 /\ 0 <= p.num /\ p.num <= 100 * p.den

PercentAtMost(p, q) == p.num * q.den <= q.num * p.den

MetricsConsistent(metrics, fleet, equipment) ==
    /\ InPercentRange(metrics.utilization)
    /\ InPercentRange(metrics.availability)
    /\ PercentAtMost(metrics.utilization, metrics.availability)
    /\ equipment = <<>> => metrics.utilization.num = 0 /\ metrics.availability.num = 0
    /\ fleet.active + fleet.idle + fleet.maintenance = fleet.total

\* C29: for the equipment list App holds, utilization and availability of calculateAnalytics
\* are within 0..100 with utilization <= availability, both 0 for the empty list, and the fleet
\* counts of getFleetMetrics satisfy active + idle + maintenance = total
AnalyticsWithinRange ==
    MetricsConsistent(calculateAnalytics(app.equipment), getFleetMetrics(app.equipment), app.equipment)

\* a fleet with active, idle and maintenance equipment whose utilization is below its availability
MixedFleetMeasured ==
    /\ getFleetMetrics(app.equipment).active > 0
    /\ getFleetMetrics(app.equipment).idle > 0
    /\ getFleetMetrics(app.equipment).maintenance > 0
    /\ ~PercentAtMost(calculateAnalytics(app.equipment).availability, calculateAnalytics(app.equipment).utilization)
    /\ out.reqs = <<>> /\ tasks = <<>> /\ budget = 0

----------------------------------------------------------------------------
(* C30: AssignmentDialog *)

\* the lists the selects of AssignmentDialog offer
availableExcavators(equipment) == SelectSeq(equipment, LAMBDA eq : eq.type = "excavator" /\ eq.status = "idle")
availableDumpers(equipment) == SelectSeq(equipment, LAMBDA eq : eq.type = "dumper" /\ eq.status = "idle")
availableCrushers(equipment) == SelectSeq(equipment, LAMBDA eq : eq.type = "crusher" /\ eq.status # "maintenance")
availableDumpyards(equipment) == SelectSeq(equipment, LAMBDA eq : eq.type = "dumpyard" /\ eq.status # "maintenance")

IdsOf(list) == {list[i].id : i \in DOMAIN list}

\* crusherId || undefined, with <<>> for undefined
OrUndefined(id) == IF id = "" THEN <<>> ELSE <<id>>

\* the object handleSubmit passes to onCreateAssignment
assignmentOf(d) ==
    [excavatorId |-> d.excavatorId, dumperId |-> d.dumperId, crusherId |-> OrUndefined(d.crusherId),
     dumpyardId |-> d.dumpyardId, priority |-> d.priority, estimatedTime |-> d.estimatedTime]

\* a handleSubmit that does not ask for a dump yard
handleSubmitWithoutYard(d) ==
    IF d.excavatorId = "" \/ d.dumperId = "" THEN [d EXCEPT !.calls = <<>>]
    ELSE [dialog0 EXCEPT !.equipment = d.equipment, !.calls = <<assignmentOf(d)>>]

\* handleSubmit of AssignmentDialog
handleSubmit(d) ==
    IF d.excavatorId = "" \/ d.dumperId = "" \/ d.dumpyardId = "" THEN [d EXCEPT !.calls = <<>>]
    ELSE [dialog0 EXCEPT !.equipment = d.equipment, !.calls = <<assignmentOf(d)>>]

\* a handler of the dialog runs
DialogEvent(d) ==
    /\ dialog' = d
    /\ UNCHANGED <<db, app, maint, route, tasks, now, out, auth, timers, budget>>

setOpen(open) == dialog.open # open /\ DialogEvent([dialog EXCEPT !.open = open, !.calls = <<>>])

\* onValueChange of the four selects and of the priority, onChange of the time input
setExcavatorId(id) ==
    /\ dialog.open
    /\ id \in IdsOf(availableExcavators(dialog.equipment))
    /\ DialogEvent([dialog EXCEPT !.excavatorId = id, !.calls = <<>>])

setDumperId(id) ==
    /\ dialog.open
    /\ id \in IdsOf(availableDumpers(dialog.equipment))
    /\ DialogEvent([dialog EXCEPT !.dumperId = id, !.calls = <<>>])

setCrusherId(id) ==
    /\ dialog.open
    /\ id \in IdsOf(availableCrushers(dialog.equipment)) \cup {""}
    /\ DialogEvent([dialog EXCEPT !.crusherId = id, !.calls = <<>>])

setDumpyardId(id) ==
    /\ dialog.open
    /\ id \in IdsOf(availableDumpyards(dialog.equipment))
    /\ DialogEvent([dialog EXCEPT !.dumpyardId = id, !.calls = <<>>])

setPriority(value) == dialog.open /\ DialogEvent([dialog EXCEPT !.priority = value, !.calls = <<>>])

setEstimatedTime(value) == dialog.open /\ DialogEvent([dialog EXCEPT !.estimatedTime = value, !.calls = <<>>])

\* the Create Assignment button of the dialog
ClickCreateAssignment == dialog.open /\ DialogEvent(handleSubmit(dialog))

FormTimes == {30, 60}

\* the dialog as constructed, over the equipment of u1
InitForm ==
    /\ Loaded(StoredDb, "dispatch")
    /\ tasks = <<>>
    /\ now = 0
    /\ out = NoOut
    /\ budget = 0
    /\ dialog = [dialog0 EXCEPT !.equipment = app.equipment]

NextForm ==
    \/ \E open \in BOOLEAN : setOpen(open)
    \/ \E id \in IdsOf(dialog.equipment) : setExcavatorId(id)
    \/ \E id \in IdsOf(dialog.equipment) : setDumperId(id)
    \/ \E id \in IdsOf(dialog.equipment) \cup {""} : setCrusherId(id)
    \/ \E id \in IdsOf(dialog.equipment) : setDumpyardId(id)
    \/ \E value \in {"high", "medium", "low"} : setPriority(value)
    \/ \E value \in FormTimes : setEstimatedTime(value)
    \/ ClickCreateAssignment

SpecForm == InitForm /\ [][NextForm]_vars

FormOf(d) == <<d.open, d.excavatorId, d.dumperId, d.crusherId, d.dumpyardId, d.priority, d.estimatedTime>>

RequiredGiven(d) == d.excavatorId # "" /\ d.dumperId # "" /\ d.dumpyardId # ""

\* with a required id missing, handleSubmit calls nothing and leaves the form as it is
IncompleteSubmitIsNoOp ==
    ~RequiredGiven(dialog) =>
        handleSubmit(dialog).calls = <<>> /\ FormOf(handleSubmit(dialog)) = FormOf(dialog)

\* a step that calls onCreateAssignment starts with the three required ids, passes the form (an
\* empty crusher as undefined) and leaves the defaults in a closed dialog
CompleteSubmitResets ==
    dialog'.calls # <<>> =>
        /\ RequiredGiven(dialog)
        /\ dialog'.calls = <<assignmentOf(dialog)>>
        /\ dialog'.calls[1].excavatorId = dialog.excavatorId /\ dialog'.calls[1].dumperId = dialog.dumperId
        /\ dialog'.calls[1].dumpyardId = dialog.dumpyardId
        /\ dialog'.calls[1].crusherId = (IF dialog.crusherId = "" THEN <<>> ELSE <<dialog.crusherId>>)
        /\ FormOf(dialog') = FormOf(dialog0)

\* C30: handleSubmit of AssignmentDialog calls onCreateAssignment only when excavatorId, dumperId
\* and dumpyardId are all non-empty, with an empty crusher passed as undefined; after the call
\* every field has its default and the dialog is closed; with a required id missing nothing is
\* called and the form is unchanged
SubmitOnlyWhenComplete == []IncompleteSubmitIsNoOp /\ [][CompleteSubmitResets]_vars

\* onCreateAssignment has been called without a crusher and with a priority and a time that are
\* not the defaults
CalledWithoutCrusher ==
    /\ dialog.calls # <<>>
    /\ dialog.calls[1].crusherId = <<>>
    /\ dialog.calls[1].priority = "high"
    /\ dialog.calls[1].estimatedTime = 30

====
